---- MODULE Spec2Model ----
(***************************************************************************)
(* The template renderer of the invoice application (lib/renderTemplate): *)
(* renderInvoiceToHtml compiles a JSX-like template to the text of a      *)
(* JavaScript template literal and evaluates it with the Function          *)
(* constructor against the invoice data.                                   *)
(*                                                                         *)
(* Text is a sequence of one-character strings.  Indexes are 0-based as in *)
(* the source: At(s, i) is s[i] of the source and Substring(s, a, b) is    *)
(* s.substring(a, b).  The backquote character is written BT, since a      *)
(* backquote cannot be written inside a TLA+ string.                       *)
(***************************************************************************)
EXTENDS Integers, Sequences, FiniteSets, TLC

BT == "BT"
BS == "\\"
DQ == "\""
SQ == "'"
NL == "\n"

(***************************************************************************)
(* String primitives of the language runtime                               *)
(***************************************************************************)
Min(a, b) == IF a < b THEN a ELSE b
Max(a, b) == IF a > b THEN a ELSE b

\* s[i]; the empty string stands for undefined / out of range
At(s, i) == IF i >= 0 /\ i < Len(s) THEN s[i + 1] ELSE ""

\* s.substring(a, b)
Substring(s, a, b) ==
  LET lo == Max(0, Min(a, Len(s)))
      hi == Max(0, Min(b, Len(s)))
  IN  IF lo >= hi THEN <<>> ELSE SubSeq(s, lo + 1, hi)

\* s.substring(a)
SubstringFrom(s, a) == Substring(s, a, Len(s))

\* s.startsWith(p, i)
StartsWithAt(s, i, p) == i >= 0 /\ i + Len(p) <= Len(s) /\ Substring(s, i, i + Len(p)) = p

StartsWith(s, p) == StartsWithAt(s, 0, p)

EndsWith(s, p) == Len(p) <= Len(s) /\ SubstringFrom(s, Len(s) - Len(p)) = p

\* s.indexOf(p, from), -1 when absent
IndexOfFrom(s, p, from) ==
  LET hits == {i \in Max(0, from)..(Len(s) - Len(p)) : StartsWithAt(s, i, p)}
  IN  IF hits = {} THEN -1 ELSE CHOOSE i \in hits : \A j \in hits : i <= j

IndexOf(s, p) == IndexOfFrom(s, p, 0)

\* s.includes(p)
Includes(s, p) == IndexOf(s, p) # -1

\* the regular expression class \s
IsSpace(c) == c \in {" ", NL, "\t", "\r"}

\* index of the first character at or after i that is not white space
RECURSIVE SkipSpace(_, _)
SkipSpace(s, i) == IF i < Len(s) /\ IsSpace(At(s, i)) THEN SkipSpace(s, i + 1) ELSE i

RECURSIVE TrimEnd(_)
TrimEnd(s) == IF Len(s) > 0 /\ IsSpace(s[Len(s)]) THEN TrimEnd(SubSeq(s, 1, Len(s) - 1)) ELSE s

\* s.trim()
Trim(s) == TrimEnd(SubstringFrom(s, SkipSpace(s, 0)))

\* the least index in lo..hi that satisfies P, hi when there is none
FirstFrom(lo, hi, P(_)) ==
  LET hits == {j \in lo..hi : P(j)}
  IN  IF hits = {} THEN Max(lo, hi) ELSE CHOOSE j \in hits : \A k \in hits : j <= k

\* const name = v; ...: F is the code that follows, with the name bound to v
With(v, F(_)) == F(v)

\* a loop of at most n iterations whose body is Step; Step leaves a finished state alone
RECURSIVE Iterate(_, _, _)
Iterate(Step(_), st, n) ==
  IF n <= 0 THEN st
  ELSE IF n = 1 THEN Step(st)
  ELSE CHOOSE r \in {Iterate(Step, half, n - (n \div 2)) : half \in {Iterate(Step, st, n \div 2)}} : TRUE

(***************************************************************************)
(* transformJsxToHtml: the regular-expression passes                       *)
(***************************************************************************)
\* a global replace walks the text once, left to right: i is the next index, out the result so far
ReplaceStart == [i |-> 0, out |-> <<>>]

\* s.replace(/open[\s\S]*?close/g, '')
RemoveDelimitedStep(s, open, close, st) ==
  IF st.i >= Len(s) THEN st
  ELSE LET j == IF StartsWithAt(s, st.i, open) THEN IndexOfFrom(s, close, st.i + Len(open)) ELSE -1
       IN  IF j # -1 THEN [st EXCEPT !.i = j + Len(close)]
           ELSE [i |-> st.i + 1, out |-> Append(st.out, At(s, st.i))]

RemoveDelimited(s, open, close) ==
  Iterate(LAMBDA st : RemoveDelimitedStep(s, open, close, st), ReplaceStart, Len(s)).out

\* s.replace(/pat/g, rep) for a literal pattern
ReplaceAllStep(s, pat, rep, st) ==
  IF st.i >= Len(s) THEN st
  ELSE IF StartsWithAt(s, st.i, pat) THEN [i |-> st.i + Len(pat), out |-> st.out \o rep]
  ELSE [i |-> st.i + 1, out |-> Append(st.out, At(s, st.i))]

ReplaceAll(s, pat, rep) == Iterate(LAMBDA st : ReplaceAllStep(s, pat, rep, st), ReplaceStart, Len(s)).out

\* s.replace(/\?\s+\./g, '?.')
FixOptionalChainingStep(s, st) ==
  IF st.i >= Len(s) THEN st
  ELSE IF At(s, st.i) = "?" /\ IsSpace(At(s, st.i + 1)) /\ At(s, SkipSpace(s, st.i + 1)) = "."
  THEN [i |-> SkipSpace(s, st.i + 1) + 1, out |-> st.out \o <<"?", ".">>]
  ELSE [i |-> st.i + 1, out |-> Append(st.out, At(s, st.i))]

FixOptionalChaining(s) == Iterate(LAMBDA st : FixOptionalChainingStep(s, st), ReplaceStart, Len(s)).out

\* start of the white space run that ends just before e
RECURSIVE SpaceRunStart(_, _, _)
SpaceRunStart(s, lo, e) == IF e > lo /\ IsSpace(At(s, e - 1)) THEN SpaceRunStart(s, lo, e - 1) ELSE e

\* s.replace(new RegExp(`<${tag}([^>]*?)\\s*/>`, 'g'), `<${tag}$1></${tag}>`)
CloseSelfClosingStep(s, tag, st) ==
  IF st.i >= Len(s) THEN st
  ELSE LET open  == <<"<">> \o tag
           from  == st.i + Len(open)
           gt    == IF StartsWithAt(s, st.i, open) THEN IndexOfFrom(s, <<">">>, from) ELSE -1
           match == gt # -1 /\ gt - 1 >= from /\ At(s, gt - 1) = "/"
           attrs == Substring(s, from, SpaceRunStart(s, from, gt - 1))
       IN  IF match
           THEN [i |-> gt + 1, out |-> st.out \o open \o attrs \o <<">", "<", "/">> \o tag \o <<">">>]
           ELSE [i |-> st.i + 1, out |-> Append(st.out, At(s, st.i))]

CloseSelfClosing(s, tag) == Iterate(LAMBDA st : CloseSelfClosingStep(s, tag, st), ReplaceStart, Len(s)).out

selfClosingTags ==
  << <<"d", "i", "v">>, <<"s", "p", "a", "n">>, <<"p">>, <<"h", "1">>, <<"h", "2">>,
     <<"h", "3">>, <<"h", "4">>, <<"h", "5">>, <<"h", "6">>, <<"l", "i">>, <<"t", "d">>,
     <<"t", "h">> >>

\* selfClosingTags.forEach(...): the tags k, k + 1, ... in turn
RECURSIVE CloseAllSelfClosing(_, _)
CloseAllSelfClosing(s, k) ==
  IF k > Len(selfClosingTags) THEN s
  ELSE CloseAllSelfClosing(CloseSelfClosing(s, selfClosingTags[k]), k + 1)

(***************************************************************************)
(* The expression scanner and the rewrites of the three expression kinds   *)
(***************************************************************************)
PeekAhead == 100

kMapOpen   == <<".", "m", "a", "p", "(">>
kMap       == <<".", "m", "a", "p">>
kArrow     == <<"=", ">">>
kFunction  == <<".", "m", "a", "p", "(", "f", "u", "n", "c", "t", "i", "o", "n", "(">>
kJoin      == <<")", ".", "j", "o", "i", "n", "(", "'", "'", ")">>
kReturn    == <<"r", "e", "t", "u", "r", "n", " ">>
kClassName == <<"c", "l", "a", "s", "s", "N", "a", "m", "e", "=">>
kClass     == <<"c", "l", "a", "s", "s", "=">>
kDollar    == <<"$", "{">>

\* /\.map\s*\(/.test(s)
HasMapCall(s) ==
  \E k \in 0..(Len(s) - 1) : StartsWithAt(s, k, kMap) /\ At(s, SkipSpace(s, k + 4)) = "("

\* while (i < chars.length && chars[i] !== '\n') i++
LineCommentEnd(chars, i) == FirstFrom(i, Len(chars), LAMBDA j : j = Len(chars) \/ At(chars, j) = NL)

\* i += 2; while (i < chars.length - 1) { if (chars[i] === '*' && chars[i + 1] === '/') { i += 2; break; } i++; }
BlockCommentEnd(chars, i) ==
  LET j == FirstFrom(i, Len(chars) - 1,
                     LAMBDA k : k >= Len(chars) - 1 \/ (At(chars, k) = "*" /\ At(chars, k + 1) = "/"))
  IN  IF j < Len(chars) - 1 THEN j + 2 ELSE j

\* the scanner's variables when parseJsxExpression enters its loop
ScanStart(startIndex) ==
  [i |-> startIndex + 1, braceDepth |-> 1, parenDepth |-> 0, bracketDepth |-> 0,
   inString |-> "", expressionChars |-> <<>>,
   isTernaryExpression |-> FALSE, isAndExpression |-> FALSE]

\* one iteration of the loop of parseJsxExpression
ScanStep(chars, st) ==
  LET i        == st.i
      char     == At(chars, i)
      prevChar == IF i > 0 THEN At(chars, i - 1) ELSE ""
      nextChar == IF i < Len(chars) - 1 THEN At(chars, i + 1) ELSE ""
      pushed   == Append(st.expressionChars, char)
  IN  IF st.inString # ""
      THEN [st EXCEPT !.expressionChars = pushed,
                      !.inString = IF char = st.inString /\ prevChar # BS THEN "" ELSE st.inString,
                      !.i = i + 1]
      ELSE IF char \in {DQ, SQ, BT} /\ prevChar # BS
      THEN [st EXCEPT !.inString = char, !.expressionChars = pushed, !.i = i + 1]
      ELSE IF char = "/" /\ nextChar = "/"
      THEN [st EXCEPT !.i = LineCommentEnd(chars, i)]
      ELSE IF char = "/" /\ nextChar = "*"
      THEN [st EXCEPT !.i = BlockCommentEnd(chars, i + 2)]
      ELSE IF char = "}" /\ st.braceDepth = 1
      THEN [st EXCEPT !.braceDepth = 0]
      ELSE LET bd == CASE char = "{" -> st.braceDepth + 1
                       [] char = "}" -> st.braceDepth - 1
                       [] OTHER      -> st.braceDepth
               pd == CASE char = "(" -> st.parenDepth + 1
                       [] char = ")" -> st.parenDepth - 1
                       [] OTHER      -> st.parenDepth
               kd == CASE char = "[" -> st.bracketDepth + 1
                       [] char = "]" -> st.bracketDepth - 1
                       [] OTHER      -> st.bracketDepth
           IN  [st EXCEPT !.braceDepth = bd, !.parenDepth = pd, !.bracketDepth = kd,
                          !.expressionChars = pushed,
                          !.isTernaryExpression =
                             st.isTernaryExpression
                               \/ (char = "?" /\ nextChar # "." /\ bd = 1 /\ pd = 0),
                          !.isAndExpression =
                             st.isAndExpression
                               \/ (char = "&" /\ nextChar = "&" /\ bd = 1 /\ pd = 0),
                          !.i = i + 1]

\* while (i < chars.length && braceDepth > 0)
ScanLoop(chars, st) ==
  Iterate(LAMBDA t : IF t.i < Len(chars) /\ t.braceDepth > 0 THEN ScanStep(chars, t) ELSE t,
          st, Len(chars) - st.i)

\* while (i < expr.length && depth > 0) { if (expr[i] === open) depth++;
\*   else if (expr[i] === close) { depth--; if (depth === 0) break; } body += expr[i]; i++; }
ReadBalancedStep(expr, open, close, st) ==
  IF ~(st.i < Len(expr) /\ st.depth > 0) THEN st
  ELSE LET c == At(expr, st.i)
           d == IF c = open THEN st.depth + 1 ELSE IF c = close THEN st.depth - 1 ELSE st.depth
       IN  IF c = close /\ d = 0 THEN [st EXCEPT !.depth = 0]
           ELSE [i |-> st.i + 1, depth |-> d, body |-> Append(st.body, c)]

ReadBalanced(expr, i, open, close) ==
  Iterate(LAMBDA st : ReadBalancedStep(expr, open, close, st),
          [i |-> i, depth |-> 1, body |-> <<>>], Len(expr) - i)

\* while (i < expr.length && expr.substring(i, i + 2) !== '=>') { params += expr[i]; i++; }
ReadUntilArrow(expr, i) ==
  FirstFrom(i, Len(expr), LAMBDA j : j = Len(expr) \/ Substring(expr, j, j + 2) = kArrow)

\* while (i < expr.length && expr[i] !== ')') { body += expr[i]; i++; }
ReadUntilParen(expr, i) ==
  FirstFrom(i, Len(expr), LAMBDA j : j = Len(expr) \/ At(expr, j) = ")")

\* the loops of convertTernaryExpression and convertAndExpression start here
FindStart ==
  [i |-> 0, braceDepth |-> 0, parenDepth |-> 0, inString |-> "",
   questionIndex |-> -1, colonIndex |-> -1, andIndex |-> -1]

\* one iteration of the for loop of convertTernaryExpression
FindTernaryStep(expr, st) ==
  IF st.i >= Len(expr) \/ st.colonIndex # -1 THEN st
  ELSE LET i        == st.i
           char     == At(expr, i)
           prevChar == IF i > 0 THEN At(expr, i - 1) ELSE ""
           bd == IF char = "{" THEN st.braceDepth + 1
                 ELSE IF char = "}" THEN st.braceDepth - 1 ELSE st.braceDepth
           pd == IF char = "(" THEN st.parenDepth + 1
                 ELSE IF char = ")" THEN st.parenDepth - 1 ELSE st.parenDepth
       IN  IF st.inString # ""
           THEN [st EXCEPT !.i = i + 1,
                           !.inString = IF char = st.inString /\ prevChar # BS THEN "" ELSE st.inString]
           ELSE IF char \in {DQ, SQ, BT} /\ prevChar # BS
           THEN [st EXCEPT !.i = i + 1, !.inString = char]
           ELSE IF bd = 0 /\ pd = 0 /\ char = "?" /\ st.questionIndex = -1 /\ At(expr, i + 1) # "."
           THEN [st EXCEPT !.i = i + 1, !.braceDepth = bd, !.parenDepth = pd, !.questionIndex = i]
           ELSE IF bd = 0 /\ pd = 0 /\ char = ":" /\ st.questionIndex # -1
           THEN [st EXCEPT !.braceDepth = bd, !.parenDepth = pd, !.colonIndex = i]
           ELSE [st EXCEPT !.i = i + 1, !.braceDepth = bd, !.parenDepth = pd]

FindTernary(expr) == Iterate(LAMBDA st : FindTernaryStep(expr, st), FindStart, Len(expr))

\* one iteration of the for loop of convertAndExpression
FindAndStep(expr, st) ==
  IF st.i >= Len(expr) - 1 \/ st.andIndex # -1 THEN st
  ELSE LET i        == st.i
           char     == At(expr, i)
           nextChar == At(expr, i + 1)
           prevChar == IF i > 0 THEN At(expr, i - 1) ELSE ""
           bd == IF char = "{" THEN st.braceDepth + 1
                 ELSE IF char = "}" THEN st.braceDepth - 1 ELSE st.braceDepth
           pd == IF char = "(" THEN st.parenDepth + 1
                 ELSE IF char = ")" THEN st.parenDepth - 1 ELSE st.parenDepth
       IN  IF st.inString # ""
           THEN [st EXCEPT !.i = i + 1,
                           !.inString = IF char = st.inString /\ prevChar # BS THEN "" ELSE st.inString]
           ELSE IF char \in {DQ, SQ, BT} /\ prevChar # BS
           THEN [st EXCEPT !.i = i + 1, !.inString = char]
           ELSE IF bd = 0 /\ pd = 0 /\ char = "&" /\ nextChar = "&"
           THEN [st EXCEPT !.braceDepth = bd, !.parenDepth = pd, !.andIndex = i]
           ELSE [st EXCEPT !.i = i + 1, !.braceDepth = bd, !.parenDepth = pd]

FindAnd(expr) == Iterate(LAMBDA st : FindAndStep(expr, st), FindStart, Len(expr)).andIndex

\* if (v.startsWith('(') && v.endsWith(')')) v = v.substring(1, v.length - 1).trim()
StripParens(v) ==
  IF StartsWith(v, <<"(">>) /\ EndsWith(v, <<")">>) THEN Trim(Substring(v, 1, Len(v) - 1)) ELSE v

RECURSIVE parseJsxExpression(_, _)
RECURSIVE convertMapExpression(_)
RECURSIVE convertJsxToTemplateLiteral(_)
RECURSIVE convertTernaryExpression(_)
RECURSIVE convertAndExpression(_)

\* lines 270-282 of parseJsxExpression: st is the scanner after its loop
ClassifyExpression(st, isMapExpression) ==
  [content  |-> IF isMapExpression THEN convertMapExpression(st.expressionChars)
                ELSE IF st.isTernaryExpression THEN convertTernaryExpression(st.expressionChars)
                ELSE IF st.isAndExpression THEN convertAndExpression(st.expressionChars)
                ELSE st.expressionChars,
   endIndex |-> st.i]

parseJsxExpression(chars, startIndex) ==
  ClassifyExpression(ScanLoop(chars, ScanStart(startIndex)),
                     HasMapCall(Substring(chars, startIndex + 1, startIndex + 1 + PeekAhead)))

\* the parameters of the arrow function, read from i: the text and the index after it
ReadMapParams(expr, i) ==
  IF At(expr, i) = "("
  THEN With(ReadBalanced(expr, i + 1, "(", ")"),
            LAMBDA pr : [params |-> pr.body, i |-> IF pr.i < Len(expr) THEN pr.i + 1 ELSE pr.i])
  ELSE With(ReadUntilArrow(expr, i),
            LAMBDA ua : [params |-> Trim(Substring(expr, i, ua)), i |-> ua])

\* the body of the arrow function, which starts at i: (jsx), {code} or a simple expression
ConvertMapBody(expr, beforeMap, params, i) ==
  IF At(expr, i) = "("
  THEN With(ReadBalanced(expr, i + 1, "(", ")"),
            LAMBDA pb : beforeMap \o kFunction \o params \o <<")", " ", "{", " ">> \o kReturn
                          \o <<BT>> \o convertJsxToTemplateLiteral(pb.body)
                          \o <<BT, ";", " ", "}">> \o kJoin \o SubstringFrom(expr, pb.i + 2))
  ELSE IF At(expr, i) = "{"
  THEN With(ReadBalanced(expr, i + 1, "{", "}"),
            LAMBDA bb : beforeMap \o kFunction \o params \o <<")", " ", "{", " ">>
                          \o convertJsxToTemplateLiteral(bb.body)
                          \o <<" ", "}">> \o kJoin \o SubstringFrom(expr, bb.i + 2))
  ELSE With(ReadUntilParen(expr, i),
            LAMBDA sb : beforeMap \o kFunction \o params \o <<")", " ", "{", " ">> \o kReturn
                          \o Substring(expr, i, sb) \o <<";", " ", "}">> \o kJoin
                          \o SubstringFrom(expr, sb + 1))

\* convertMapExpression after const mapIndex = expr.indexOf('.map(')
ConvertMapAt(expr, mapIndex) ==
  With(ReadMapParams(expr, mapIndex + 5),
       LAMBDA p : With(SkipSpace(expr, p.i),
       LAMBDA i2 : IF Substring(expr, i2, i2 + 2) # kArrow THEN expr
                   ELSE ConvertMapBody(expr, Substring(expr, 0, mapIndex), p.params,
                                       SkipSpace(expr, i2 + 2))))

convertMapExpression(expr) ==
  With(IndexOf(expr, kMapOpen),
       LAMBDA mapIndex : IF mapIndex = -1 THEN expr ELSE ConvertMapAt(expr, mapIndex))

\* one iteration of the loop of convertJsxToTemplateLiteral
ConvertJsxStep(jsx, st) ==
  IF st.i >= Len(jsx) THEN st
  ELSE IF At(jsx, st.i) = "{"
  THEN With(parseJsxExpression(jsx, st.i),
            LAMBDA exprResult : [i   |-> exprResult.endIndex + 1,
                                 out |-> st.out \o kDollar \o exprResult.content \o <<"}">>])
  ELSE IF At(jsx, st.i) = BT THEN [i |-> st.i + 1, out |-> st.out \o <<BS, BT>>]
  ELSE IF At(jsx, st.i) = BS THEN [i |-> st.i + 1, out |-> st.out \o <<BS, BS>>]
  ELSE [i |-> st.i + 1, out |-> Append(st.out, At(jsx, st.i))]

convertJsxToTemplateLiteral(jsx) ==
  Iterate(LAMBDA st : ConvertJsxStep(jsx, st), ReplaceStart, Len(jsx)).out

\* convertTernaryExpression after its two values are cut out and stripped of parentheses
ConvertTernaryValues(expr, condition, trueValue, falseValue) ==
  IF StartsWith(Trim(trueValue), <<"<">>) \/ StartsWith(Trim(falseValue), <<"<">>)
  THEN condition \o <<" ", "?", " ", BT>>
         \o (IF StartsWith(Trim(trueValue), <<"<">>)
             THEN convertJsxToTemplateLiteral(trueValue) ELSE trueValue)
         \o <<BT, " ", ":", " ", BT>>
         \o (IF StartsWith(Trim(falseValue), <<"<">>)
             THEN convertJsxToTemplateLiteral(falseValue) ELSE falseValue)
         \o <<BT>>
  ELSE expr

convertTernaryExpression(expr) ==
  With(FindTernary(expr),
       LAMBDA f : IF f.questionIndex = -1 \/ f.colonIndex = -1 THEN expr
                  ELSE ConvertTernaryValues(
                         expr,
                         Trim(Substring(expr, 0, f.questionIndex)),
                         StripParens(Trim(Substring(expr, f.questionIndex + 1, f.colonIndex))),
                         StripParens(Trim(SubstringFrom(expr, f.colonIndex + 1)))))

\* convertAndExpression after its markup part is cut out and stripped of parentheses
ConvertAndParts(expr, condition, jsxPart) ==
  IF StartsWith(Trim(jsxPart), <<"<">>)
  THEN condition \o <<" ", "?", " ", BT>> \o convertJsxToTemplateLiteral(jsxPart)
         \o <<BT, " ", ":", " ", "'", "'">>
  ELSE expr

convertAndExpression(expr) ==
  With(FindAnd(expr),
       LAMBDA andIndex : IF andIndex = -1 THEN expr
                         ELSE ConvertAndParts(expr, Trim(Substring(expr, 0, andIndex)),
                                              StripParens(Trim(SubstringFrom(expr, andIndex + 2)))))

\* one iteration of the loop of parseAndConvertJsx
ParseAndConvertStep(jsx, st) ==
  IF st.i >= Len(jsx) THEN st
  ELSE IF At(jsx, st.i) = "{" /\ st.i > 0 /\ At(jsx, st.i - 1) # "$"
  THEN With(parseJsxExpression(jsx, st.i),
            LAMBDA exprResult : [i   |-> exprResult.endIndex + 1,
                                 out |-> st.out \o kDollar \o exprResult.content \o <<"}">>])
  ELSE [i |-> st.i + 1, out |-> Append(st.out, At(jsx, st.i))]

parseAndConvertJsx(jsx) ==
  Iterate(LAMBDA st : ParseAndConvertStep(jsx, st), ReplaceStart, Len(jsx)).out

\* transformJsxToHtml up to the embedded expressions: HTML comments and JSX comments are
\* removed and className= becomes class=
PrepareJsx(jsx) ==
  ReplaceAll(RemoveDelimited(RemoveDelimited(jsx, <<"<", "!", "-", "-">>, <<"-", "-", ">">>),
                             <<"{", "/", "*">>, <<"*", "/", "}">>),
             kClassName, kClass)

\* then the embedded expressions are converted, '? .' becomes '?.' and the self-closing
\* tags are closed
transformJsxToHtml(jsx) ==
  CloseAllSelfClosing(FixOptionalChaining(parseAndConvertJsx(PrepareJsx(jsx))), 1)

\* a test for the template literal format that looks for class= where the code looks for
\* className=
isTemplateLiteralClass(tsxTemplate) == Includes(tsxTemplate, kDollar) /\ ~Includes(tsxTemplate, kClass)

\* lines 71-72 of renderInvoiceToHtml: the text handed to the evaluator
isTemplateLiteral(tsxTemplate) == Includes(tsxTemplate, kDollar) /\ ~Includes(tsxTemplate, kClassName)

htmlTemplateOf(tsxTemplate) ==
  IF isTemplateLiteral(tsxTemplate) THEN tsxTemplate ELSE transformJsxToHtml(tsxTemplate)

(***************************************************************************)
(* Values of the language runtime.  A property name or an identifier is    *)
(* the text of the name; an object is a function from names to values.     *)
(***************************************************************************)
kInvoice == <<"i", "n", "v", "o", "i", "c", "e">>
kCompany == <<"c", "o", "m", "p", "a", "n", "y">>
kCurrency == <<"c", "u", "r", "r", "e", "n", "c", "y">>
kSubtotal == <<"s", "u", "b", "t", "o", "t", "a", "l">>
kDiscountAmount == <<"d", "i", "s", "c", "o", "u", "n", "t", "A", "m", "o", "u", "n", "t">>
kTaxAmount == <<"t", "a", "x", "A", "m", "o", "u", "n", "t">>
kShippingAmount == <<"s", "h", "i", "p", "p", "i", "n", "g", "A", "m", "o", "u", "n", "t">>
kTotal == <<"t", "o", "t", "a", "l">>
kFormattedIssueDate ==
  <<"f", "o", "r", "m", "a", "t", "t", "e", "d", "I", "s", "s", "u", "e", "D", "a", "t", "e">>
kFormattedDueDate ==
  <<"f", "o", "r", "m", "a", "t", "t", "e", "d", "D", "u", "e", "D", "a", "t", "e">>
kFormatDate == <<"f", "o", "r", "m", "a", "t", "D", "a", "t", "e">>
kWhen == <<"w", "h", "e", "n">>
kMapName == <<"m", "a", "p">>
kInvoiceNumber == <<"i", "n", "v", "o", "i", "c", "e", "_", "n", "u", "m", "b", "e", "r">>
kIssueDate == <<"i", "s", "s", "u", "e", "_", "d", "a", "t", "e">>
kDueDate == <<"d", "u", "e", "_", "d", "a", "t", "e">>
kNotes == <<"n", "o", "t", "e", "s">>
kSubtotalAmount == <<"s", "u", "b", "t", "o", "t", "a", "l", "_", "a", "m", "o", "u", "n", "t">>
kDiscountTotalAmount ==
  <<"d", "i", "s", "c", "o", "u", "n", "t", "_", "t", "o", "t", "a", "l", "_", "a", "m", "o", "u", "n", "t">>
kTaxTotalAmount ==
  <<"t", "a", "x", "_", "t", "o", "t", "a", "l", "_", "a", "m", "o", "u", "n", "t">>
kShippingTotalAmount ==
  <<"s", "h", "i", "p", "p", "i", "n", "g", "_", "t", "o", "t", "a", "l", "_", "a", "m", "o", "u", "n", "t">>
kTotalAmount == <<"t", "o", "t", "a", "l", "_", "a", "m", "o", "u", "n", "t">>
kItems == <<"i", "t", "e", "m", "s">>
kName == <<"n", "a", "m", "e">>
kSymbol == <<"s", "y", "m", "b", "o", "l">>
kJoinName == <<"j", "o", "i", "n">>
kExit == <<"e", "x", "i", "t">>
kLength == <<"l", "e", "n", "g", "t", "h">>
kFunctionWord == <<"f", "u", "n", "c", "t", "i", "o", "n">>
kReturnWord == <<"r", "e", "t", "u", "r", "n">>
kNull == <<"n", "u", "l", "l">>
kUndefined == <<"u", "n", "d", "e", "f", "i", "n", "e", "d">>
kTrue == <<"t", "r", "u", "e">>
kFalse == <<"f", "a", "l", "s", "e">>
kGlobal == <<"g", "l", "o", "b", "a", "l">>
kGlobalThis == <<"g", "l", "o", "b", "a", "l", "T", "h", "i", "s">>
kProcess == <<"p", "r", "o", "c", "e", "s", "s">>

VNull == [t |-> "null"]
VUndef == [t |-> "undefined"]
VStr(s) == [t |-> "string", s |-> s]
VNum(n) == [t |-> "number", n |-> n]
VBool(b) == [t |-> "boolean", b |-> b]
VObj(o) == [t |-> "object", o |-> o]
VArr(a) == [t |-> "array", a |-> a]
\* a function of the safe context (formatDate, when, map)
VHelper(h) == [t |-> "helper", h |-> h]
\* a method read from a receiver (array.map, array.join, process.exit)
VMethod(m, self) == [t |-> "method", m |-> m, self |-> self]
\* function(params) { return <expression at index body>; } closed over scope
VClosure(params, body, scope) == [t |-> "closure", params |-> params, body |-> body, scope |-> scope]
\* an object of the global scope of the process
VAmbient(name) == [t |-> "ambient", name |-> name]

\* the names of the global scope, which every function created by the Function constructor
\* resolves besides its parameters; require is a name of the module scope and is not among them
AmbientNames == {kGlobalThis, kProcess}

IsNullish(v) == v.t \in {"null", "undefined"}

\* ToBoolean
Truthy(v) ==
  CASE v.t \in {"null", "undefined"} -> FALSE
    [] v.t = "string"  -> v.s # <<>>
    [] v.t = "number"  -> v.n # 0
    [] v.t = "boolean" -> v.b
    [] OTHER           -> TRUE

Digits == <<"0", "1", "2", "3", "4", "5", "6", "7", "8", "9">>

\* Number.prototype.toString of a natural number
RECURSIVE NumToString(_)
NumToString(n) ==
  IF n < 10 THEN <<Digits[n + 1]>> ELSE NumToString(n \div 10) \o <<Digits[(n % 10) + 1]>>

RECURSIVE JsToString(_)
RECURSIVE JoinArray(_, _, _)

\* Array.prototype.join: null and undefined elements give the empty string
JoinArray(a, k, sep) ==
  IF k > Len(a) THEN <<>>
  ELSE (IF k > 1 THEN sep ELSE <<>>)
         \o (IF IsNullish(a[k]) THEN <<>> ELSE JsToString(a[k]))
         \o JoinArray(a, k + 1, sep)

\* JsToString, as a template literal applies it to the value of ${...}
JsToString(v) ==
  CASE v.t = "string"    -> v.s
    [] v.t = "number"    -> NumToString(v.n)
    [] v.t = "null"      -> kNull
    [] v.t = "undefined" -> kUndefined
    [] v.t = "boolean"   -> IF v.b THEN kTrue ELSE kFalse
    [] v.t = "array"     -> JoinArray(v.a, 1, <<",">>)
    [] v.t = "object"    -> <<"[", "o", "b", "j", "e", "c", "t", " ", "O", "b", "j", "e", "c", "t", "]">>
    [] v.t = "ambient"   -> <<"[", "o", "b", "j", "e", "c", "t", " ">>
                              \o (IF v.name = kGlobalThis THEN kGlobal ELSE v.name) \o <<"]">>
    [] OTHER             -> <<"f", "u", "n", "c", "t", "i", "o", "n">>

\* a || b
JsOr(a, b) == IF Truthy(a) THEN a ELSE b

\* obj.name
GetField(obj, name) == IF name \in DOMAIN obj.o THEN obj.o[name] ELSE VUndef

(***************************************************************************)
(* createSafeContext                                                       *)
(***************************************************************************)
kMonths ==
  << <<"J", "a", "n">>, <<"F", "e", "b">>, <<"M", "a", "r">>, <<"A", "p", "r">>,
     <<"M", "a", "y">>, <<"J", "u", "n">>, <<"J", "u", "l">>, <<"A", "u", "g">>,
     <<"S", "e", "p">>, <<"O", "c", "t">>, <<"N", "o", "v">>, <<"D", "e", "c">> >>

DigitValue(c) == CHOOSE d \in 0..9 : Digits[d + 1] = c

IsDigit(c) == \E d \in 1..10 : Digits[d] = c

\* new Date(s) of a date-only ISO text yyyy-mm-dd is a valid date
IsIsoDate(s) ==
  /\ Len(s) = 10
  /\ \A k \in {1, 2, 3, 4, 6, 7, 9, 10} : IsDigit(s[k])
  /\ s[5] = "-" /\ s[8] = "-"
  /\ 10 * DigitValue(s[6]) + DigitValue(s[7]) \in 1..12
  /\ 10 * DigitValue(s[9]) + DigitValue(s[10]) \in 1..28

\* d.toLocaleDateString('en-US', {year: 'numeric', month: 'short', day: 'numeric'}) in a
\* process whose time zone is UTC; a text that is no date gives 'Invalid Date'
ToLocaleDateString(s) ==
  IF IsIsoDate(s)
  THEN kMonths[10 * DigitValue(s[6]) + DigitValue(s[7])] \o <<" ">>
         \o NumToString(10 * DigitValue(s[9]) + DigitValue(s[10])) \o <<",", " ">>
         \o SubSeq(s, 1, 4)
  ELSE <<"I", "n", "v", "a", "l", "i", "d", " ", "D", "a", "t", "e">>

\* const formatDate = (date) => { if (!date) return ''; ... }
formatDate(date) ==
  IF ~Truthy(date) THEN VStr(<<>>)
  ELSE VStr(ToLocaleDateString(JsToString(date)))

\* a context builder that leaves out the helper map
createSafeContextNoMap(context) ==
  LET invoice == context.invoice
  IN  (kInvoice :> context.invoice)
        @@ (kCompany :> context.company)
        @@ (kCurrency :> context.currency)
        @@ (kSubtotal :> JsOr(GetField(invoice, kSubtotalAmount), VNum(0)))
        @@ (kDiscountAmount :> JsOr(GetField(invoice, kDiscountTotalAmount), VNum(0)))
        @@ (kTaxAmount :> JsOr(GetField(invoice, kTaxTotalAmount), VNum(0)))
        @@ (kShippingAmount :> JsOr(GetField(invoice, kShippingTotalAmount), VNum(0)))
        @@ (kTotal :> JsOr(GetField(invoice, kTotalAmount), VNum(0)))
        @@ (kFormattedIssueDate :> formatDate(GetField(invoice, kIssueDate)))
        @@ (kFormattedDueDate :> formatDate(GetField(invoice, kDueDate)))
        @@ (kFormatDate :> VHelper("formatDate"))
        @@ (kWhen :> VHelper("when"))

\* createSafeContext: the object whose keys and values the evaluator binds
createSafeContext(context) ==
  LET invoice == context.invoice
  IN  (kInvoice :> context.invoice)
        @@ (kCompany :> context.company)
        @@ (kCurrency :> context.currency)
        @@ (kSubtotal :> JsOr(GetField(invoice, kSubtotalAmount), VNum(0)))
        @@ (kDiscountAmount :> JsOr(GetField(invoice, kDiscountTotalAmount), VNum(0)))
        @@ (kTaxAmount :> JsOr(GetField(invoice, kTaxTotalAmount), VNum(0)))
        @@ (kShippingAmount :> JsOr(GetField(invoice, kShippingTotalAmount), VNum(0)))
        @@ (kTotal :> JsOr(GetField(invoice, kTotalAmount), VNum(0)))
        @@ (kFormattedIssueDate :> formatDate(GetField(invoice, kIssueDate)))
        @@ (kFormattedDueDate :> formatDate(GetField(invoice, kDueDate)))
        @@ (kFormatDate :> VHelper("formatDate"))
        @@ (kWhen :> VHelper("when"))
        @@ (kMapName :> VHelper("map"))

(***************************************************************************)
(* evaluateTemplate: new Function(...contextKeys, 'return `' + template +  *)
(* '`;') and its call.  The function body is parsed and evaluated as the   *)
(* language does, for the expressions templates are written in: names,     *)
(* property reads, calls, literals, template literals, function            *)
(* expressions of the form function(p) { return e; }, the operators        *)
(* ! || && === !== == != < > <= >= + and the conditional operator.         *)
(* A result is [err, v, pos, names]: err is "" or the error thrown, v the  *)
(* value, pos the index after the text consumed, names the free names the  *)
(* evaluation resolved.  With live = FALSE the text is only parsed.        *)
(***************************************************************************)
Letters ==
  {"a", "b", "c", "d", "e", "f", "g", "h", "i", "j", "k", "l", "m", "n", "o", "p", "q", "r",
   "s", "t", "u", "v", "w", "x", "y", "z", "A", "B", "C", "D", "E", "F", "G", "H", "I", "J",
   "K", "L", "M", "N", "O", "P", "Q", "R", "S", "T", "U", "V", "W", "X", "Y", "Z"}

IsIdentStart(c) == c \in Letters \/ c \in {"_", "$"}

IsIdentChar(c) == IsIdentStart(c) \/ IsDigit(c)

\* index after the identifier that starts at pos
IdentEnd(src, pos) == FirstFrom(pos, Len(src), LAMBDA j : j = Len(src) \/ ~IsIdentChar(At(src, j)))

\* index after the digits that start at pos
NumberEnd(src, pos) == FirstFrom(pos, Len(src), LAMBDA j : j = Len(src) \/ ~IsDigit(At(src, j)))

RECURSIVE ParseNumber(_)
ParseNumber(ds) ==
  IF ds = <<>> THEN 0 ELSE 10 * ParseNumber(SubSeq(ds, 1, Len(ds) - 1)) + DigitValue(ds[Len(ds)])

ReservedWords ==
  {kReturnWord, <<"i", "f">>, <<"e", "l", "s", "e">>, <<"f", "o", "r">>, <<"v", "a", "r">>,
   <<"l", "e", "t">>, <<"c", "o", "n", "s", "t">>, <<"w", "h", "i", "l", "e">>}

Ok(v, pos, names) == [err |-> "", v |-> v, pos |-> pos, names |-> names]
Fail(err, pos, names) == [err |-> err, v |-> VUndef, pos |-> pos, names |-> names]
\* the result r of a step that follows the steps that resolved names
After(names, r) == [r EXCEPT !.names = names \cup r.names]

\* the binary operator at index p: its text, its length and its precedence (0: none)
OperatorAt(src, p) ==
  LET three == Substring(src, p, p + 3)
      two   == Substring(src, p, p + 2)
      one   == At(src, p)
  IN  IF three \in {<<"=", "=", "=">>, <<"!", "=", "=">>} THEN [sym |-> three, len |-> 3, prec |-> 3]
      ELSE IF two = <<"|", "|">> THEN [sym |-> two, len |-> 2, prec |-> 1]
      ELSE IF two = <<"&", "&">> THEN [sym |-> two, len |-> 2, prec |-> 2]
      ELSE IF two \in {<<"=", "=">>, <<"!", "=">>} THEN [sym |-> two, len |-> 2, prec |-> 3]
      ELSE IF two \in {<<"<", "=">>, <<">", "=">>} THEN [sym |-> two, len |-> 2, prec |-> 4]
      ELSE IF one \in {"<", ">"} THEN [sym |-> <<one>>, len |-> 1, prec |-> 4]
      ELSE IF one = "+" THEN [sym |-> <<one>>, len |-> 1, prec |-> 5]
      ELSE [sym |-> <<>>, len |-> 0, prec |-> 0]

\* ToNumber of the operands of a comparison; -1 stands for NaN
ToNumber(v) ==
  CASE v.t = "number"  -> v.n
    [] v.t = "null"    -> 0
    [] v.t = "boolean" -> IF v.b THEN 1 ELSE 0
    [] OTHER           -> -1

ApplyBinary(sym, a, b) ==
  LET x == ToNumber(a)
      y == ToNumber(b)
      num == x # -1 /\ y # -1
  IN  CASE sym = <<"|", "|">> -> IF Truthy(a) THEN a ELSE b
        [] sym = <<"&", "&">> -> IF Truthy(a) THEN b ELSE a
        [] sym \in {<<"=", "=", "=">>, <<"=", "=">>} -> VBool(a = b)
        [] sym \in {<<"!", "=", "=">>, <<"!", "=">>} -> VBool(a # b)
        [] sym = <<"<">>      -> VBool(num /\ x < y)
        [] sym = <<">">>      -> VBool(num /\ x > y)
        [] sym = <<"<", "=">> -> VBool(num /\ x <= y)
        [] sym = <<">", "=">> -> VBool(num /\ x >= y)
        [] OTHER -> IF a.t = "number" /\ b.t = "number" THEN VNum(a.n + b.n)
                    ELSE VStr(JsToString(a) \o JsToString(b))

\* base.name
GetProp(base, name) ==
  CASE base.t = "object" -> GetField(base, name)
    [] base.t = "array" ->
         IF name \in {kMapName, kJoinName} THEN VMethod(name, base)
         ELSE IF name = kLength THEN VNum(Len(base.a)) ELSE VUndef
    [] base.t = "string" -> IF name = kLength THEN VNum(Len(base.s)) ELSE VUndef
    [] base.t = "ambient" ->
         IF base.name = kGlobalThis /\ name \in AmbientNames THEN VAmbient(name)
         ELSE IF base.name = kProcess /\ name = kExit THEN VMethod(name, base)
         ELSE VUndef
    [] OTHER -> VUndef

\* the parameter names of function(a, b)
RECURSIVE SplitParams(_)
SplitParams(text) ==
  LET comma == IndexOf(text, <<",">>)
  IN  IF Trim(text) = <<>> THEN <<>>
      ELSE IF comma = -1 THEN <<Trim(text)>>
      ELSE <<Trim(Substring(text, 0, comma))>> \o SplitParams(SubstringFrom(text, comma + 1))

IsIdentifier(w) ==
  /\ w # <<>> /\ IsIdentStart(w[1]) /\ \A k \in 1..Len(w) : IsIdentChar(w[k])
  /\ w \notin ReservedWords

\* the scope of a call of a closure: its parameters bound to the arguments
RECURSIVE BindParams(_, _, _, _)
BindParams(scope, ps, as, k) ==
  IF k > Len(ps) THEN scope
  ELSE (ps[k] :> (IF k <= Len(as) THEN as[k] ELSE VUndef)) @@ BindParams(scope, ps, as, k + 1)

\* the character an escape sequence of a string or template literal stands for
Unescape(e) == CASE e = "n" -> NL [] e = "t" -> "\t" [] e = "r" -> "\r" [] OTHER -> e

\* the next character or escape sequence of the text of a quoted string literal
UnquoteStep(s, st) ==
  IF st.i >= Len(s) THEN st
  ELSE IF At(s, st.i) = BS /\ st.i + 1 < Len(s)
  THEN [i |-> st.i + 2, out |-> Append(st.out, Unescape(At(s, st.i + 1)))]
  ELSE [i |-> st.i + 1, out |-> Append(st.out, At(s, st.i))]

\* the value of a quoted string literal: its text with every escape sequence resolved
Unquote(s) == Iterate(LAMBDA st : UnquoteStep(s, st), ReplaceStart, Len(s)).out

\* \u, \x and a decimal digit need more characters than a template holds here
BadEscapes == {"u", "x", "1", "2", "3", "4", "5", "6", "7", "8", "9"}

RECURSIVE EvalExpr(_, _, _, _)
RECURSIVE TernaryRest(_, _, _, _, _)
RECURSIVE TernaryElse(_, _, _, _, _, _)
RECURSIVE EvalBinary(_, _, _, _, _)
RECURSIVE BinaryRest(_, _, _, _, _)
RECURSIVE EvalUnary(_, _, _, _)
RECURSIVE PostfixRest(_, _, _, _)
RECURSIVE Member(_, _, _, _, _, _)
RECURSIVE CallResult(_, _, _, _, _)
RECURSIVE EvalArgs(_, _, _, _)
RECURSIVE ArgsRest(_, _, _, _, _)
RECURSIVE EvalPrimary(_, _, _, _)
RECURSIVE ParseFunction(_, _, _)
RECURSIVE ParseFunctionBody(_, _, _, _)
RECURSIVE EvalTemplate(_, _, _, _)
RECURSIVE TemplateStep(_, _, _, _)
RECURSIVE Call(_, _, _)
RECURSIVE MapArray(_, _, _, _)

\* cond ? a : b
EvalExpr(src, pos, scope, live) ==
  With(EvalBinary(src, pos, scope, live, 1),
       LAMBDA c : TernaryRest(src, c, SkipSpace(src, c.pos), scope, live))

\* c is the condition, q the index of what follows it
TernaryRest(src, c, q, scope, live) ==
  IF c.err # "" \/ At(src, q) # "?" THEN c
  ELSE With(EvalExpr(src, q + 1, scope, live /\ Truthy(c.v)),
            LAMBDA a : IF a.err # "" THEN After(c.names, a)
                       ELSE TernaryElse(src, c, a, SkipSpace(src, a.pos), scope, live))

\* a is the first branch, col the index of what follows it
TernaryElse(src, c, a, col, scope, live) ==
  IF At(src, col) # ":" THEN Fail("SyntaxError", col, c.names \cup a.names)
  ELSE With(EvalExpr(src, col + 1, scope, live /\ ~Truthy(c.v)),
            LAMBDA b : IF b.err # "" THEN After(c.names \cup a.names, b)
                       ELSE Ok(IF Truthy(c.v) THEN a.v ELSE b.v, b.pos,
                               c.names \cup a.names \cup b.names))

\* a chain of binary operators of precedence minPrec and above
EvalBinary(src, pos, scope, live, minPrec) ==
  With(EvalUnary(src, pos, scope, live),
       LAMBDA l : IF l.err # "" THEN l ELSE BinaryRest(src, l, scope, live, minPrec))

\* || and && evaluate their right operand only when the left one does not decide
RightLive(sym, v, live) ==
  /\ live
  /\ (sym = <<"|", "|">> => ~Truthy(v))
  /\ (sym = <<"&", "&">> => Truthy(v))

\* l is the left operand
BinaryRest(src, l, scope, live, minPrec) ==
  With(OperatorAt(src, SkipSpace(src, l.pos)),
       LAMBDA op :
         IF op.len = 0 \/ op.prec < minPrec THEN l
         ELSE With(EvalBinary(src, SkipSpace(src, l.pos) + op.len, scope,
                              RightLive(op.sym, l.v, live), op.prec + 1),
                   LAMBDA r :
                     IF r.err # "" THEN After(l.names, r)
                     ELSE BinaryRest(src,
                                     Ok(IF live THEN ApplyBinary(op.sym, l.v, r.v) ELSE VUndef,
                                        r.pos, l.names \cup r.names),
                                     scope, live, minPrec)))

EvalUnary(src, pos, scope, live) ==
  IF At(src, SkipSpace(src, pos)) = "!"
  THEN With(EvalUnary(src, SkipSpace(src, pos) + 1, scope, live),
            LAMBDA r : IF r.err # "" THEN r ELSE Ok(VBool(~Truthy(r.v)), r.pos, r.names))
  ELSE With(EvalPrimary(src, SkipSpace(src, pos), scope, live),
            LAMBDA pr : IF pr.err # "" THEN pr ELSE PostfixRest(src, pr, scope, live))

\* base.name or base?.name, the name starting at from
Member(src, base, from, optional, scope, live) ==
  With(IdentEnd(src, from),
       LAMBDA e :
         IF live /\ IsNullish(base.v)
         THEN IF optional
              THEN [PostfixRest(src, Ok(VUndef, e, base.names), scope, FALSE) EXCEPT !.v = VUndef]
              ELSE Fail("TypeError", e, base.names)
         ELSE PostfixRest(src,
                          Ok(IF live THEN GetProp(base.v, Substring(src, from, e)) ELSE VUndef,
                             e, base.names),
                          scope, live))

\* base(args)
CallResult(src, base, args, scope, live) ==
  IF args.err # "" THEN After(base.names, args)
  ELSE IF ~live THEN PostfixRest(src, Ok(VUndef, args.pos, base.names), scope, live)
  ELSE With(Call(src, base.v, args.v.a),
            LAMBDA res :
              IF res.err # "" THEN Fail(res.err, args.pos, base.names \cup args.names \cup res.names)
              ELSE PostfixRest(src, Ok(res.v, args.pos, base.names \cup args.names \cup res.names),
                               scope, live))

\* the property reads and calls that follow the expression base
PostfixRest(src, base, scope, live) ==
  With(SkipSpace(src, base.pos),
       LAMBDA p :
         IF At(src, p) = "." /\ IsIdentStart(At(src, p + 1))
         THEN Member(src, base, p + 1, FALSE, scope, live)
         ELSE IF At(src, p) = "?" /\ At(src, p + 1) = "." /\ IsIdentStart(At(src, p + 2))
         THEN Member(src, base, p + 2, TRUE, scope, live)
         ELSE IF At(src, p) = "("
         THEN With(EvalArgs(src, p + 1, scope, live),
                   LAMBDA args : CallResult(src, base, args, scope, live))
         ELSE base)

\* the arguments of a call, from the index after '(' to the index after ')'
EvalArgs(src, pos, scope, live) ==
  IF At(src, SkipSpace(src, pos)) = ")" THEN Ok(VArr(<<>>), SkipSpace(src, pos) + 1, {})
  ELSE With(EvalExpr(src, SkipSpace(src, pos), scope, live),
            LAMBDA a : IF a.err # "" THEN a
                       ELSE ArgsRest(src, a, SkipSpace(src, a.pos), scope, live))

\* a is the first argument, q the index of what follows it
ArgsRest(src, a, q, scope, live) ==
  IF At(src, q) = ")" THEN Ok(VArr(<<a.v>>), q + 1, a.names)
  ELSE IF At(src, q) # "," THEN Fail("SyntaxError", q, a.names)
  ELSE With(EvalArgs(src, q + 1, scope, live),
            LAMBDA rest : IF rest.err # "" THEN After(a.names, rest)
                          ELSE Ok(VArr(<<a.v>> \o rest.v.a), rest.pos, a.names \cup rest.names))

\* a word at p..e: a keyword or a name
EvalWord(src, word, p, e, scope, live) ==
  IF word = kFunctionWord THEN ParseFunction(src, e, scope)
  ELSE IF word = kNull THEN Ok(VNull, e, {})
  ELSE IF word = kUndefined THEN Ok(VUndef, e, {})
  ELSE IF word = kTrue THEN Ok(VBool(TRUE), e, {})
  ELSE IF word = kFalse THEN Ok(VBool(FALSE), e, {})
  ELSE IF word \in ReservedWords THEN Fail("SyntaxError", p, {})
  ELSE IF ~live THEN Ok(VUndef, e, {})
  ELSE IF word \in DOMAIN scope THEN Ok(scope[word], e, {word})
  ELSE IF word \in AmbientNames THEN Ok(VAmbient(word), e, {word})
  ELSE Fail("ReferenceError", e, {})

\* the engine reads a string literal character by character: a backslash takes the
\* character after it with it, the quote that opened the literal or a line end stops
QuoteEndStep(src, quote, j) ==
  IF j >= Len(src) \/ At(src, j) = NL \/ At(src, j) = quote THEN Min(j, Len(src))
  ELSE IF At(src, j) = BS THEN Min(j + 2, Len(src))
  ELSE j + 1

\* index of the quote that closes the string literal opened at p
QuoteEnd(src, p) ==
  Iterate(LAMBDA j : QuoteEndStep(src, At(src, p), j), p + 1, Len(src) - p)

\* a name, a literal, a template literal, a function expression or ( expression )
EvalPrimary(src, p, scope, live) ==
  IF IsIdentStart(At(src, p))
  THEN With(IdentEnd(src, p), LAMBDA e : EvalWord(src, Substring(src, p, e), p, e, scope, live))
  ELSE IF IsDigit(At(src, p))
  THEN With(NumberEnd(src, p), LAMBDA ne : Ok(VNum(ParseNumber(Substring(src, p, ne))), ne, {}))
  ELSE IF At(src, p) \in {SQ, DQ}
  THEN With(QuoteEnd(src, p),
            LAMBDA qe : IF At(src, qe) = At(src, p)
                        THEN Ok(VStr(Unquote(Substring(src, p + 1, qe))), qe + 1, {})
                        ELSE Fail("SyntaxError", qe, {}))
  ELSE IF At(src, p) = BT THEN EvalTemplate(src, p + 1, scope, live)
  ELSE IF At(src, p) = "("
  THEN With(EvalExpr(src, p + 1, scope, live),
            LAMBDA inner :
              IF inner.err # "" THEN inner
              ELSE IF At(src, SkipSpace(src, inner.pos)) # ")"
              THEN Fail("SyntaxError", SkipSpace(src, inner.pos), inner.names)
              ELSE [inner EXCEPT !.pos = SkipSpace(src, inner.pos) + 1])
  ELSE Fail("SyntaxError", p, {})

\* function(params) { return e; } from the index after the word function
ParseFunction(src, pos, scope) ==
  With(SkipSpace(src, pos),
       LAMBDA lp : With(IndexOfFrom(src, <<")">>, lp),
       LAMBDA rp : IF At(src, lp) # "(" \/ rp = -1 THEN Fail("SyntaxError", lp, {})
                   ELSE ParseFunctionBody(src, SplitParams(Substring(src, lp + 1, rp)),
                                          SkipSpace(src, rp + 1), scope)))

\* the function's body: lb is the index of its opening brace
ParseFunctionBody(src, params, lb, scope) ==
  IF \E k \in 1..Len(params) : ~IsIdentifier(params[k]) THEN Fail("SyntaxError", lb, {})
  ELSE IF At(src, lb) # "{" THEN Fail("SyntaxError", lb, {})
  ELSE With(SkipSpace(src, lb + 1) + Len(kReturnWord),
            LAMBDA bodyAt :
              IF ~StartsWithAt(src, bodyAt - Len(kReturnWord), kReturnWord)
                   \/ IsIdentChar(At(src, bodyAt))
              THEN Fail("SyntaxError", bodyAt, {})
              ELSE With(EvalExpr(src, bodyAt, scope, FALSE),
                        LAMBDA body :
                          IF body.err # "" THEN body
                          ELSE With(IF At(src, SkipSpace(src, body.pos)) = ";"
                                    THEN SkipSpace(src, SkipSpace(src, body.pos) + 1)
                                    ELSE SkipSpace(src, body.pos),
                                    LAMBDA rb :
                                      IF At(src, rb) # "}" THEN Fail("SyntaxError", rb, {})
                                      ELSE Ok(VClosure(params, bodyAt, scope), rb + 1, {}))))

\* an interpolation that takes the backquotes out of the text it inserts
InterpolateWithoutBackquotes(src, st, r, close, live) ==
  IF r.err # "" THEN [st EXCEPT !.err = r.err, !.pos = r.pos, !.names = st.names \cup r.names]
  ELSE IF At(src, close) # "}"
  THEN [st EXCEPT !.err = "SyntaxError", !.pos = close, !.names = st.names \cup r.names]
  ELSE [st EXCEPT !.pos = close + 1,
                  !.out = st.out \o (IF live THEN SelectSeq(JsToString(r.v), LAMBDA c : c # BT)
                                     ELSE <<>>),
                  !.names = st.names \cup r.names]

\* ${r} in a template literal: r is the value, close the index of what follows it
Interpolate(src, st, r, close, live) ==
  IF r.err # "" THEN [st EXCEPT !.err = r.err, !.pos = r.pos, !.names = st.names \cup r.names]
  ELSE IF At(src, close) # "}"
  THEN [st EXCEPT !.err = "SyntaxError", !.pos = close, !.names = st.names \cup r.names]
  ELSE [st EXCEPT !.pos = close + 1,
                  !.out = st.out \o (IF live THEN JsToString(r.v) ELSE <<>>),
                  !.names = st.names \cup r.names]

\* the next character, escape or ${...} of a template literal
TemplateStep(src, scope, live, st) ==
  IF st.done \/ st.err # "" THEN st
  ELSE IF st.pos >= Len(src) THEN [st EXCEPT !.err = "SyntaxError"]
  ELSE IF At(src, st.pos) = BT THEN [st EXCEPT !.done = TRUE, !.pos = st.pos + 1]
  ELSE IF At(src, st.pos) = BS
  THEN IF st.pos + 1 >= Len(src) \/ At(src, st.pos + 1) \in BadEscapes
       THEN [st EXCEPT !.err = "SyntaxError"]
       ELSE [st EXCEPT !.pos = st.pos + 2, !.out = Append(st.out, Unescape(At(src, st.pos + 1)))]
  ELSE IF At(src, st.pos) = "$" /\ At(src, st.pos + 1) = "{"
  THEN With(EvalExpr(src, st.pos + 2, scope, live),
            LAMBDA r : Interpolate(src, st, r, SkipSpace(src, r.pos), live))
  ELSE [st EXCEPT !.pos = st.pos + 1, !.out = Append(st.out, At(src, st.pos))]

\* a template literal from the index after its opening backquote
EvalTemplate(src, pos, scope, live) ==
  With(Iterate(LAMBDA st : TemplateStep(src, scope, live, st),
               [pos |-> pos, out |-> <<>>, names |-> {}, err |-> "", done |-> FALSE],
               Len(src) - pos + 1),
       LAMBDA end : [err |-> end.err, v |-> VStr(end.out), pos |-> end.pos, names |-> end.names])

\* array.map(cb) from element k on
MapArray(src, a, k, cb) ==
  IF k > Len(a) THEN Ok(VArr(<<>>), 0, {})
  ELSE With(Call(src, cb, <<a[k], VNum(k - 1)>>),
            LAMBDA r :
              IF r.err # "" THEN r
              ELSE With(MapArray(src, a, k + 1, cb),
                        LAMBDA rest : IF rest.err # "" THEN After(r.names, rest)
                                      ELSE Ok(VArr(<<r.v>> \o rest.v.a), 0,
                                              r.names \cup rest.names)))

\* arguments[k - 1]
Arg(as, k) == IF k <= Len(as) THEN as[k] ELSE VUndef

IsCallable(v) == v.t \in {"closure", "method", "helper"}

\* f(...as)
Call(src, f, as) ==
  CASE f.t = "closure" -> EvalExpr(src, f.body, BindParams(f.scope, f.params, as, 1), TRUE)
    [] f.t = "method" /\ f.m = kMapName ->
         IF IsCallable(Arg(as, 1)) THEN MapArray(src, f.self.a, 1, Arg(as, 1))
         ELSE Fail("TypeError", 0, {})
    [] f.t = "method" /\ f.m = kJoinName ->
         Ok(VStr(JoinArray(f.self.a, 1,
                           IF Arg(as, 1).t = "undefined" THEN <<",">> ELSE JsToString(Arg(as, 1)))),
            0, {})
    [] f.t = "method" /\ f.m = kExit -> Fail("exit", 0, {})
    [] f.t = "helper" /\ f.h = "formatDate" -> Ok(formatDate(Arg(as, 1)), 0, {})
    [] f.t = "helper" /\ f.h = "when" ->
         Ok(IF Truthy(Arg(as, 1)) THEN Arg(as, 2)
            ELSE IF Arg(as, 3).t = "undefined" THEN VStr(<<>>) ELSE Arg(as, 3),
            0, {})
    [] f.t = "helper" /\ f.h = "map" ->
         IF Arg(as, 1).t # "array" THEN Ok(VStr(<<>>), 0, {})
         ELSE IF ~IsCallable(Arg(as, 2)) THEN Fail("TypeError", 0, {})
         ELSE With(MapArray(src, Arg(as, 1).a, 1, Arg(as, 2)),
                   LAMBDA mapped : IF mapped.err # "" THEN mapped
                                   ELSE Ok(VStr(JoinArray(mapped.v.a, 1, <<>>)), 0, mapped.names))
    [] OTHER -> Fail("TypeError", 0, {})

\* 'return `' + template + '`;'
FunctionBody(template) == kReturn \o <<BT>> \o template \o <<BT, ";">>

\* a statement that ended at from is followed at q by ';', by the end, or by a line break
StatementEnds(src, from, q) ==
  q >= Len(src) \/ At(src, q) = ";" \/ \E k \in from..(q - 1) : At(src, k) = NL

\* the statements after the return statement: they are parsed and never run
RECURSIVE RestStatements(_, _)
RestStatements(src, pos) ==
  With(SkipSpace(src, pos),
       LAMBDA p :
         IF p >= Len(src) THEN ""
         ELSE IF At(src, p) = ";" THEN RestStatements(src, p + 1)
         ELSE With(EvalExpr(src, p, <<>>, FALSE),
                   LAMBDA e :
                     IF e.err # "" THEN e.err
                     ELSE IF StatementEnds(src, e.pos, SkipSpace(src, e.pos))
                     THEN RestStatements(src, SkipSpace(src, e.pos))
                     ELSE "SyntaxError"))

\* the function body: return <expression>; and what follows
RunBody(src, scope, live) ==
  With(EvalExpr(src, Len(kReturnWord), scope, live),
       LAMBDA r :
         IF r.err # "" THEN r
         ELSE IF ~StatementEnds(src, r.pos, SkipSpace(src, r.pos))
         THEN Fail("SyntaxError", r.pos, r.names)
         ELSE IF RestStatements(src, SkipSpace(src, r.pos)) # ""
         THEN Fail("SyntaxError", r.pos, r.names)
         ELSE r)

\* what evaluateTemplate gives when the function ran and gave run
Outcome(run) ==
  IF run.err = "exit" THEN [kind |-> "exit", err |-> "", out |-> <<>>, names |-> run.names]
  ELSE IF run.err # "" THEN [kind |-> "error", err |-> run.err, out |-> <<>>, names |-> run.names]
  ELSE [kind |-> "ok", err |-> "", out |-> JsToString(run.v), names |-> run.names]

\* The outcome of evaluateTemplate: kind "ok" with the string returned, kind "error" with the
\* error thrown, kind "exit" when the template ended the process.  writable tells whether
\* fs.writeFileSync can write the debug file.  The Function constructor parses the whole
\* body before any of it runs.
evaluateTemplate(template, context, writable) ==
  IF ~writable THEN [kind |-> "error", err |-> "ENOENT", out |-> <<>>, names |-> {}]
  ELSE IF RunBody(FunctionBody(template), context, FALSE).err # ""
  THEN [kind |-> "error", err |-> "SyntaxError", out |-> <<>>, names |-> {}]
  ELSE Outcome(RunBody(FunctionBody(template), context, TRUE))

(***************************************************************************)
(* The calls of renderInvoiceToHtml.  A run renders one template against   *)
(* one set of data, and renders it again, in a process whose debug file    *)
(* may or may not be writable at the time of a call.                       *)
(***************************************************************************)
\* the most line items an invoice has
MaxItems == 2
\* the most times a call is repeated with the same template and data
MaxCalls == 1

kThanks == <<"T", "h", "a", "n", "k", "s">>
kInvNumber == <<"I", "N", "V", "-", "0", "0", "1">>
kAcme == <<"A", "c", "m", "e">>
kDate == <<"2", "0", "2", "4", "-", "0", "3", "-", "0", "9">>
\* a text that new Date cannot parse
kSoon == <<"s", "o", "o", "n">>
\* notes a customer can type: (backquote)${foo}{total}(backquote)
kInjected == <<BT, "$", "{", "f", "o", "o", "}", "{", "t", "o", "t", "a", "l", "}", BT>>

\* the name of line item k
ItemName(k) == <<"n">> \o NumToString(k)

ItemsOf(n) == [k \in 1..n |-> VObj(kName :> VStr(ItemName(k)))]

\* the TemplateContext of a call: invoice, company and currency
ContextOf(notes, due, n) ==
  [invoice  |-> VObj((kInvoiceNumber :> VStr(kInvNumber)) @@ (kTotalAmount :> VNum(1500))
                       @@ (kSubtotalAmount :> VNum(1200)) @@ (kNotes :> notes)
                       @@ (kDueDate :> due) @@ (kItems :> VArr(ItemsOf(n)))),
   company  |-> VObj(kName :> VStr(kAcme)),
   currency |-> VObj(kSymbol :> VStr(<<"$">>))]

Contexts ==
  {ContextOf(notes, due, n) : notes \in {VNull, VStr(kThanks)},
                              due \in {VNull, VStr(kDate), VStr(kSoon)}, n \in 0..MaxItems}
    \cup {ContextOf(VStr(kInjected), VNull, n) : n \in 0..MaxItems}

\* the template of the documented example
\*   <div class="invoice"><h1>Invoice #{invoice.invoice_number}</h1><p>Total: {currency.symbol}{invoice.total_amount}</p></div>
tplConcrete ==
  <<"<", "d", "i", "v", " ", "c", "l", "a", "s", "s", "=", "\"", "i", "n", "v", "o", "i", "c",
    "e", "\"", ">", "<", "h", "1", ">", "I", "n", "v", "o", "i", "c", "e", " ", "#", "{", "i",
    "n", "v", "o", "i", "c", "e", ".", "i", "n", "v", "o", "i", "c", "e", "_", "n", "u", "m",
    "b", "e", "r", "}", "<", "/", "h", "1", ">", "<", "p", ">", "T", "o", "t", "a", "l", ":",
    " ", "{", "c", "u", "r", "r", "e", "n", "c", "y", ".", "s", "y", "m", "b", "o", "l", "}",
    "{", "i", "n", "v", "o", "i", "c", "e", ".", "t", "o", "t", "a", "l", "_", "a", "m", "o",
    "u", "n", "t", "}", "<", "/", "p", ">", "<", "/", "d", "i", "v", ">">>

\* a plain expression that is the whole template
\*   {invoice.invoice_number}
tplPlainAtStart ==
  <<"{", "i", "n", "v", "o", "i", "c", "e", ".", "i", "n", "v", "o", "i", "c", "e", "_", "n",
    "u", "m", "b", "e", "r", "}">>

\* a plain expression with a comment in it
\*   <p>{invoice.notes /* memo */}</p>
tplPlainNotes ==
  <<"<", "p", ">", "{", "i", "n", "v", "o", "i", "c", "e", ".", "n", "o", "t", "e", "s", " ",
    "/", "*", " ", "m", "e", "m", "o", " ", "*", "/", "}", "<", "/", "p", ">">>

\*   <p>Due {invoice.due_date}</p>
tplDueDate ==
  <<"<", "p", ">", "D", "u", "e", " ", "{", "i", "n", "v", "o", "i", "c", "e", ".", "d", "u",
    "e", "_", "d", "a", "t", "e", "}", "<", "/", "p", ">">>

\*   <p>{formatDate(invoice.due_date)} {formattedDueDate}</p>
tplFormatDue ==
  <<"<", "p", ">", "{", "f", "o", "r", "m", "a", "t", "D", "a", "t", "e", "(", "i", "n", "v",
    "o", "i", "c", "e", ".", "d", "u", "e", "_", "d", "a", "t", "e", ")", "}", " ", "{", "f",
    "o", "r", "m", "a", "t", "t", "e", "d", "D", "u", "e", "D", "a", "t", "e", "}", "<", "/",
    "p", ">">>

\* the documented && example: the expression starts at the first character
\*   {invoice.notes && <p>Notes: {invoice.notes}</p>}
tplAndAtStart ==
  <<"{", "i", "n", "v", "o", "i", "c", "e", ".", "n", "o", "t", "e", "s", " ", "&", "&", " ",
    "<", "p", ">", "N", "o", "t", "e", "s", ":", " ", "{", "i", "n", "v", "o", "i", "c", "e",
    ".", "n", "o", "t", "e", "s", "}", "<", "/", "p", ">", "}">>

\*   <b>{invoice.notes && <p>Notes: {invoice.notes}</p>}</b>
tplAndInside ==
  <<"<", "b", ">", "{", "i", "n", "v", "o", "i", "c", "e", ".", "n", "o", "t", "e", "s", " ",
    "&", "&", " ", "<", "p", ">", "N", "o", "t", "e", "s", ":", " ", "{", "i", "n", "v", "o",
    "i", "c", "e", ".", "n", "o", "t", "e", "s", "}", "<", "/", "p", ">", "}", "<", "/", "b",
    ">">>

\*   <ul>{invoice.items.map(x => (<li>{x.name}</li>))}</ul>
tplMap ==
  <<"<", "u", "l", ">", "{", "i", "n", "v", "o", "i", "c", "e", ".", "i", "t", "e", "m", "s",
    ".", "m", "a", "p", "(", "x", " ", "=", ">", " ", "(", "<", "l", "i", ">", "{", "x", ".",
    "n", "a", "m", "e", "}", "<", "/", "l", "i", ">", ")", ")", "}", "<", "/", "u", "l", ">">>

\* markup text with a closing parenthesis in the body of the arrow function
\*   <ul>{invoice.items.map(x => (<li>a) {x.name}</li>))}</ul>
tplMapParen ==
  <<"<", "u", "l", ">", "{", "i", "n", "v", "o", "i", "c", "e", ".", "i", "t", "e", "m", "s",
    ".", "m", "a", "p", "(", "x", " ", "=", ">", " ", "(", "<", "l", "i", ">", "a", ")", " ",
    "{", "x", ".", "n", "a", "m", "e", "}", "<", "/", "l", "i", ">", ")", ")", "}", "<", "/",
    "u", "l", ">">>

\* the documented unterminated expression
\*   <ul>{invoice.items.map(i => <div>{i.name}</div></ul>
tplMapOpen ==
  <<"<", "u", "l", ">", "{", "i", "n", "v", "o", "i", "c", "e", ".", "i", "t", "e", "m", "s",
    ".", "m", "a", "p", "(", "i", " ", "=", ">", " ", "<", "d", "i", "v", ">", "{", "i", ".",
    "n", "a", "m", "e", "}", "<", "/", "d", "i", "v", ">", "<", "/", "u", "l", ">">>

\* an unterminated plain expression
\*   <p>{invoice.notes</p>
tplOpen ==
  <<"<", "p", ">", "{", "i", "n", "v", "o", "i", "c", "e", ".", "n", "o", "t", "e", "s", "<",
    "/", "p", ">">>

\* an unterminated plain expression at the end of the template
\*   <p>{invoice.notes
tplOpenAtEnd ==
  <<"<", "p", ">", "{", "i", "n", "v", "o", "i", "c", "e", ".", "n", "o", "t", "e", "s">>

\*   <i>{invoice.due_date ? <b>Due {invoice.due_date}</b> : <i>none</i>}</i>
tplTernary ==
  <<"<", "i", ">", "{", "i", "n", "v", "o", "i", "c", "e", ".", "d", "u", "e", "_", "d", "a",
    "t", "e", " ", "?", " ", "<", "b", ">", "D", "u", "e", " ", "{", "i", "n", "v", "o", "i",
    "c", "e", ".", "d", "u", "e", "_", "d", "a", "t", "e", "}", "<", "/", "b", ">", " ", ":",
    " ", "<", "i", ">", "n", "o", "n", "e", "<", "/", "i", ">", "}", "<", "/", "i", ">">>

\* a colon in the text of the first branch
\*   <i>{invoice.due_date ? <b>Due: {invoice.due_date}</b> : <i>none</i>}</i>
tplTernaryColon ==
  <<"<", "i", ">", "{", "i", "n", "v", "o", "i", "c", "e", ".", "d", "u", "e", "_", "d", "a",
    "t", "e", " ", "?", " ", "<", "b", ">", "D", "u", "e", ":", " ", "{", "i", "n", "v", "o",
    "i", "c", "e", ".", "d", "u", "e", "_", "d", "a", "t", "e", "}", "<", "/", "b", ">", " ",
    ":", " ", "<", "i", ">", "n", "o", "n", "e", "<", "/", "i", ">", "}", "<", "/", "i", ">">>

\* each branch reads a name the other does not
\*   <i>{invoice.notes ? <b>{invoice.notes.length}</b> : <u>{company.name}</u>}</i>
tplTernaryNames ==
  <<"<", "i", ">", "{", "i", "n", "v", "o", "i", "c", "e", ".", "n", "o", "t", "e", "s", " ",
    "?", " ", "<", "b", ">", "{", "i", "n", "v", "o", "i", "c", "e", ".", "n", "o", "t", "e",
    "s", ".", "l", "e", "n", "g", "t", "h", "}", "<", "/", "b", ">", " ", ":", " ", "<", "u",
    ">", "{", "c", "o", "m", "p", "a", "n", "y", ".", "n", "a", "m", "e", "}", "<", "/", "u",
    ">", "}", "<", "/", "i", ">">>

\* a ternary whose second branch is a plain expression
\*   <i>{invoice.notes ? <b>x</b> : ''}</i>
tplTernaryPlain ==
  <<"<", "i", ">", "{", "i", "n", "v", "o", "i", "c", "e", ".", "n", "o", "t", "e", "s", " ",
    "?", " ", "<", "b", ">", "x", "<", "/", "b", ">", " ", ":", " ", "'", "'", "}", "<", "/",
    "i", ">">>

\* a question mark in the markup text of an && expression
\*   <b>{invoice.notes && <p>Why? {invoice.notes}</p>}</b>
tplAndQuestion ==
  <<"<", "b", ">", "{", "i", "n", "v", "o", "i", "c", "e", ".", "n", "o", "t", "e", "s", " ",
    "&", "&", " ", "<", "p", ">", "W", "h", "y", "?", " ", "{", "i", "n", "v", "o", "i", "c",
    "e", ".", "n", "o", "t", "e", "s", "}", "<", "/", "p", ">", "}", "<", "/", "b", ">">>

\* an && expression whose right side is no markup
\*   <b>{invoice.notes && invoice.notes.length}</b>
tplAndPlain ==
  <<"<", "b", ">", "{", "i", "n", "v", "o", "i", "c", "e", ".", "n", "o", "t", "e", "s", " ",
    "&", "&", " ", "i", "n", "v", "o", "i", "c", "e", ".", "n", "o", "t", "e", "s", ".", "l",
    "e", "n", "g", "t", "h", "}", "<", "/", "b", ">">>

\*   <p>{globalThis}</p>
tplGlobalThis ==
  <<"<", "p", ">", "{", "g", "l", "o", "b", "a", "l", "T", "h", "i", "s", "}", "<", "/", "p",
    ">">>

\*   <p>{process.exit(1)}</p>
tplExit ==
  <<"<", "p", ">", "{", "p", "r", "o", "c", "e", "s", "s", ".", "e", "x", "i", "t", "(", "1",
    ")", "}", "<", "/", "p", ">">>

\* a name of the module scope
\*   <p>{require}</p>
tplRequire ==
  <<"<", "p", ">", "{", "r", "e", "q", "u", "i", "r", "e", "}", "<", "/", "p", ">">>

\* a name that neither the context nor the global scope has
\*   <p>{foo}</p>
tplUnknown ==
  <<"<", "p", ">", "{", "f", "o", "o", "}", "<", "/", "p", ">">>

\* a backquote in the markup text
\*   <p>No`s {total}</p>
tplBackquote ==
  <<"<", "p", ">", "N", "o", BT, "s", " ", "{", "t", "o", "t", "a", "l", "}", "<", "/", "p",
    ">">>

\* plain-interpolation form, with text the transformation would change
\*   <p class="a">${total}<br/>{/* x */}<!-- y --></p>
tplLiteral ==
  <<"<", "p", " ", "c", "l", "a", "s", "s", "=", "\"", "a", "\"", ">", "$", "{", "t", "o", "t",
    "a", "l", "}", "<", "b", "r", "/", ">", "{", "/", "*", " ", "x", " ", "*", "/", "}", "<",
    "!", "-", "-", " ", "y", " ", "-", "-", ">", "<", "/", "p", ">">>

\* interpolation markers and className= together
\*   <p className="a">${total}<br/></p>
tplLiteralClass ==
  <<"<", "p", " ", "c", "l", "a", "s", "s", "N", "a", "m", "e", "=", "\"", "a", "\"", ">", "$",
    "{", "t", "o", "t", "a", "l", "}", "<", "b", "r", "/", ">", "<", "/", "p", ">">>

\*   <td className="n"/>{subtotal}<!-- y -->
tplSelfClosing ==
  <<"<", "t", "d", " ", "c", "l", "a", "s", "s", "N", "a", "m", "e", "=", "\"", "n", "\"", "/",
    ">", "{", "s", "u", "b", "t", "o", "t", "a", "l", "}", "<", "!", "-", "-", " ", "y", " ",
    "-", "-", ">">>

\* braces and a parenthesis inside quoted strings
\*   <p>{'a}b' + "{(" + invoice.notes}</p>
tplStringBraces ==
  <<"<", "p", ">", "{", "'", "a", "}", "b", "'", " ", "+", " ", "\"", "{", "(", "\"", " ", "+",
    " ", "i", "n", "v", "o", "i", "c", "e", ".", "n", "o", "t", "e", "s", "}", "<", "/", "p",
    ">">>

\* a brace inside a backquoted string
\*   <p>{`a}` + invoice.notes}</p>
tplBackquoteString ==
  <<"<", "p", ">", "{", BT, "a", "}", BT, " ", "+", " ", "i", "n", "v", "o", "i", "c", "e",
    ".", "n", "o", "t", "e", "s", "}", "<", "/", "p", ">">>

\* an escaped quote inside a string
\*   <p>{'it\'s }' + invoice.notes}</p>
tplEscapedQuote ==
  <<"<", "p", ">", "{", "'", "i", "t", "\\", "'", "s", " ", "}", "'", " ", "+", " ", "i", "n",
    "v", "o", "i", "c", "e", ".", "n", "o", "t", "e", "s", "}", "<", "/", "p", ">">>

\* a string that ends with an escaped backslash
\*   <p>{invoice.notes + '\\'}</p>
tplEscapedBackslash ==
  <<"<", "p", ">", "{", "i", "n", "v", "o", "i", "c", "e", ".", "n", "o", "t", "e", "s", " ",
    "+", " ", "'", "\\", "\\", "'", "}", "<", "/", "p", ">">>

\* a ternary whose condition has &&
\*   <i>{invoice.notes && invoice.due_date ? <b>x</b> : <u>y</u>}</i>
tplAndTernary ==
  <<"<", "i", ">", "{", "i", "n", "v", "o", "i", "c", "e", ".", "n", "o", "t", "e", "s", " ",
    "&", "&", " ", "i", "n", "v", "o", "i", "c", "e", ".", "d", "u", "e", "_", "d", "a", "t",
    "e", " ", "?", " ", "<", "b", ">", "x", "<", "/", "b", ">", " ", ":", " ", "<", "u", ">",
    "y", "<", "/", "u", ">", "}", "<", "/", "i", ">">>

\* a ternary whose first branch is a mapping
\*   <ul>{invoice.notes ? invoice.items.map(x => (<li>{x.name}</li>)) : <i>none</i>}</ul>
tplMapTernary ==
  <<"<", "u", "l", ">", "{", "i", "n", "v", "o", "i", "c", "e", ".", "n", "o", "t", "e", "s",
    " ", "?", " ", "i", "n", "v", "o", "i", "c", "e", ".", "i", "t", "e", "m", "s", ".", "m",
    "a", "p", "(", "x", " ", "=", ">", " ", "(", "<", "l", "i", ">", "{", "x", ".", "n", "a",
    "m", "e", "}", "<", "/", "l", "i", ">", ")", ")", " ", ":", " ", "<", "i", ">", "n", "o",
    "n", "e", "<", "/", "i", ">", "}", "<", "/", "u", "l", ">">>

\* an && whose right side is a mapping
\*   <ul>{invoice.items && invoice.items.map(x => (<li>{x.name}</li>))}</ul>
tplMapAnd ==
  <<"<", "u", "l", ">", "{", "i", "n", "v", "o", "i", "c", "e", ".", "i", "t", "e", "m", "s",
    " ", "&", "&", " ", "i", "n", "v", "o", "i", "c", "e", ".", "i", "t", "e", "m", "s", ".",
    "m", "a", "p", "(", "x", " ", "=", ">", " ", "(", "<", "l", "i", ">", "{", "x", ".", "n",
    "a", "m", "e", "}", "<", "/", "l", "i", ">", ")", ")", "}", "<", "/", "u", "l", ">">>

\* a mapping whose arrow function has a bare expression as its body
\*   <ul>{invoice.items.map(x => x.name)}</ul>
tplMapBare ==
  <<"<", "u", "l", ">", "{", "i", "n", "v", "o", "i", "c", "e", ".", "i", "t", "e", "m", "s",
    ".", "m", "a", "p", "(", "x", " ", "=", ">", " ", "x", ".", "n", "a", "m", "e", ")", "}",
    "<", "/", "u", "l", ">">>

\* text after the closing parenthesis of the map call
\*   <ul>{invoice.items.map(x => x.name).length}</ul>
tplMapBareAfter ==
  <<"<", "u", "l", ">", "{", "i", "n", "v", "o", "i", "c", "e", ".", "i", "t", "e", "m", "s",
    ".", "m", "a", "p", "(", "x", " ", "=", ">", " ", "x", ".", "n", "a", "m", "e", ")", ".",
    "l", "e", "n", "g", "t", "h", "}", "<", "/", "u", "l", ">">>

\* a bare body that calls a function
\*   <ul>{invoice.items.map(x => formatDate(x.name))}</ul>
tplMapBareCall ==
  <<"<", "u", "l", ">", "{", "i", "n", "v", "o", "i", "c", "e", ".", "i", "t", "e", "m", "s",
    ".", "m", "a", "p", "(", "x", " ", "=", ">", " ", "f", "o", "r", "m", "a", "t", "D", "a",
    "t", "e", "(", "x", ".", "n", "a", "m", "e", ")", ")", "}", "<", "/", "u", "l", ">">>

\* self-closing tags of both kinds
\*   <p>{total}<br/><img src="a"/><div class="b" /></p>
tplSelfClosingOther ==
  <<"<", "p", ">", "{", "t", "o", "t", "a", "l", "}", "<", "b", "r", "/", ">", "<", "i", "m",
    "g", " ", "s", "r", "c", "=", "\"", "a", "\"", "/", ">", "<", "d", "i", "v", " ", "c", "l",
    "a", "s", "s", "=", "\"", "b", "\"", " ", "/", ">", "<", "/", "p", ">">>

\* a self-closing tag whose name starts with the name of a listed tag
\*   <link rel="x"/><p>{total}</p>
tplSelfClosingLink ==
  <<"<", "l", "i", "n", "k", " ", "r", "e", "l", "=", "\"", "x", "\"", "/", ">", "<", "p", ">",
    "{", "t", "o", "t", "a", "l", "}", "<", "/", "p", ">">>

\* a ternary followed by a mapping expression
\*   <i>{invoice.notes ? <b>x</b> : <u>y</u>}</i><ul>{invoice.items.map(x => (<li>{x.name}</li>))}</ul>
tplTernaryThenMap ==
  <<"<", "i", ">", "{", "i", "n", "v", "o", "i", "c", "e", ".", "n", "o", "t", "e", "s", " ",
    "?", " ", "<", "b", ">", "x", "<", "/", "b", ">", " ", ":", " ", "<", "u", ">", "y", "<",
    "/", "u", ">", "}", "<", "/", "i", ">", "<", "u", "l", ">", "{", "i", "n", "v", "o", "i",
    "c", "e", ".", "i", "t", "e", "m", "s", ".", "m", "a", "p", "(", "x", " ", "=", ">", " ",
    "(", "<", "l", "i", ">", "{", "x", ".", "n", "a", "m", "e", "}", "<", "/", "l", "i", ">",
    ")", ")", "}", "<", "/", "u", "l", ">">>

\* a backquote in the text before an expression
\*   <p>5` x {invoice.invoice_number}</p>
tplTextBackquote ==
  <<"<", "p", ">", "5", BT, " ", "x", " ", "{", "i", "n", "v", "o", "i", "c", "e", ".", "i",
    "n", "v", "o", "i", "c", "e", "_", "n", "u", "m", "b", "e", "r", "}", "<", "/", "p", ">">>

\* a backslash in the text
\*   <p>C:\new {invoice.invoice_number}</p>
tplTextBackslash ==
  <<"<", "p", ">", "C", ":", "\\", "n", "e", "w", " ", "{", "i", "n", "v", "o", "i", "c", "e",
    ".", "i", "n", "v", "o", "i", "c", "e", "_", "n", "u", "m", "b", "e", "r", "}", "<", "/",
    "p", ">">>

\* a dollar sign in the text
\*   <p>US$ {invoice.total_amount}</p>
tplTextDollar ==
  <<"<", "p", ">", "U", "S", "$", " ", "{", "i", "n", "v", "o", "i", "c", "e", ".", "t", "o",
    "t", "a", "l", "_", "a", "m", "o", "u", "n", "t", "}", "<", "/", "p", ">">>

\* a string that is never closed
\*   <p>{'abc}</p>
tplOpenString ==
  <<"<", "p", ">", "{", "'", "a", "b", "c", "}", "<", "/", "p", ">">>

\* a block comment that is never closed
\*   <p>{invoice.notes /* b}</p>
tplOpenComment ==
  <<"<", "p", ">", "{", "i", "n", "v", "o", "i", "c", "e", ".", "n", "o", "t", "e", "s", " ",
    "/", "*", " ", "b", "}", "<", "/", "p", ">">>

\* a line comment that runs to the end of the text
\*   <p>{invoice.notes // b}</p>
tplLineComment ==
  <<"<", "p", ">", "{", "i", "n", "v", "o", "i", "c", "e", ".", "n", "o", "t", "e", "s", " ",
    "/", "/", " ", "b", "}", "<", "/", "p", ">">>

\* a map call without an arrow function
\*   <p>{invoice.items.map(x)}</p>
tplMapNoArrow ==
  <<"<", "p", ">", "{", "i", "n", "v", "o", "i", "c", "e", ".", "i", "t", "e", "m", "s", ".",
    "m", "a", "p", "(", "x", ")", "}", "<", "/", "p", ">">>

\* a parameter list that is never closed
\*   <p>{invoice.items.map((x}</p>
tplMapOpenParams ==
  <<"<", "p", ">", "{", "i", "n", "v", "o", "i", "c", "e", ".", "i", "t", "e", "m", "s", ".",
    "m", "a", "p", "(", "(", "x", "}", "<", "/", "p", ">">>

\* a mapping inside a ternary inside an && expression
\*   <b>{invoice.notes && <p>{invoice.due_date ? <i>{invoice.items.map(x => (<u>{x.name}</u>))}</i> : <s>-</s>}</p>}</b>
tplNested ==
  <<"<", "b", ">", "{", "i", "n", "v", "o", "i", "c", "e", ".", "n", "o", "t", "e", "s", " ",
    "&", "&", " ", "<", "p", ">", "{", "i", "n", "v", "o", "i", "c", "e", ".", "d", "u", "e",
    "_", "d", "a", "t", "e", " ", "?", " ", "<", "i", ">", "{", "i", "n", "v", "o", "i", "c",
    "e", ".", "i", "t", "e", "m", "s", ".", "m", "a", "p", "(", "x", " ", "=", ">", " ", "(",
    "<", "u", ">", "{", "x", ".", "n", "a", "m", "e", "}", "<", "/", "u", ">", ")", ")", "}",
    "<", "/", "i", ">", " ", ":", " ", "<", "s", ">", "-", "<", "/", "s", ">", "}", "<", "/",
    "p", ">", "}", "<", "/", "b", ">">>

\* the templates that are rendered
Templates ==
  {tplConcrete, tplPlainAtStart, tplPlainNotes, tplDueDate, tplFormatDue, tplAndAtStart,
   tplAndInside, tplMap, tplMapParen, tplMapOpen, tplOpen, tplOpenAtEnd, tplTernary,
   tplTernaryColon, tplTernaryNames, tplTernaryPlain, tplAndQuestion, tplAndPlain,
   tplGlobalThis, tplExit, tplRequire, tplUnknown, tplBackquote, tplLiteral, tplLiteralClass,
   tplSelfClosing, tplTextBackquote, tplTextBackslash, tplTextDollar}

\* more templates for the compiler: expressions of every kind, and broken ones
ScannerTemplates ==
  {tplStringBraces, tplBackquoteString, tplEscapedQuote, tplEscapedBackslash, tplAndTernary,
   tplMapTernary, tplMapAnd, tplMapBare, tplMapBareAfter, tplMapBareCall, tplSelfClosingOther,
   tplSelfClosingLink, tplTernaryThenMap, tplOpenString, tplOpenComment, tplLineComment,
   tplMapNoArrow, tplMapOpenParams, tplNested}


VARIABLES
  tsxTemplate,   \* the template of the call
  context,       \* the data of the call
  writable,      \* fs.writeFileSync can write transformed-debug.txt
  debugFile,     \* the text of transformed-debug.txt
  pc,            \* "start", "compiled" (htmlTemplate is set), "done" (the call returned or threw)
  htmlTemplate,  \* the text handed to evaluateTemplate
  result,        \* what evaluateTemplate returned or threw
  thrown,        \* the error renderInvoiceToHtml threw
  console,       \* the template texts written with console.error
  calls,         \* the calls made before this one with the same template and data
  previous       \* what the call before this one returned or threw

VARIABLES
  step,          \* the export request: where GET and generatePdf stand
  invoice,       \* the invoice the request loaded
  styling,       \* the styling of the invoice's template, VNull when it has none
  html,          \* the document GET built: where it comes from and its text
  pdfBuffer,     \* the bytes page.pdf produced
  browser,       \* the headless browser: "none", "open", "closed", "crashed"
  failure,       \* the error that travels to a catch block, NoError when there is none
  response,      \* the response of the request
  fallback       \* the fallbacks to the default template written with console.error

VARIABLES
  rows,          \* the invoices table: rows with id, created_at and cancelled
  query,         \* the options of the listing: limit and status
  cursor,        \* the cursor of the next getAllWithCursor call, VNull without one
  pages,         \* the ids returned so far, in the order returned
  paging         \* "idle", "more" (another page is to be fetched), "end" (nextCursor was null)

VARIABLES
  stack          \* the calls of the compiler under way: its functions with their texts and indexes

VARIABLES
  requests,            \* the loadInvoices calls of the list page, in the order they started
  abortControllerRef,  \* the request whose controller abortControllerRef.current holds, 0 for null
  filteredInvoices,    \* the rows the list page shows
  totalCount,          \* the count of records the list page shows
  loading              \* the loading flag of the list page

VARIABLES
  storedItems,   \* the rows of invoice_items of the invoice, in the order they were inserted
  updating       \* the call of invoicesApi.update: its step, its items and what it logged

renderVars ==
  <<tsxTemplate, context, debugFile, pc, htmlTemplate, result, thrown, console, calls, previous>>
exportVars ==
  <<step, invoice, styling, html, pdfBuffer, browser, failure, response, fallback>>
pageVars == <<rows, query, cursor, pages, paging>>
listVars == <<requests, abortControllerRef, filteredInvoices, totalCount, loading>>
updateVars == <<storedItems, updating>>
laterVars == <<stack, listVars, updateVars>>
vars == <<renderVars, writable, exportVars, pageVars, laterVars>>

NoResult == [kind |-> "none", err |-> "", out |-> <<>>, names |-> {}]
NoError == [name |-> "", message |-> <<>>]
NoDocument == [from |-> "none", text |-> <<>>]
NoBytes == [kind |-> "none", of |-> <<>>]
NoResponse == [status |-> 0, type |-> "", disposition |-> <<>>, body |-> NoBytes]

\* the message of an error of the engine or of the file system: one element, which stands for
\* the words of the message and differs from one kind of error to another
MessageOf(err) == <<err>>

kFailed ==
  <<"T", "e", "m", "p", "l", "a", "t", "e", " ", "r", "e", "n", "d", "e", "r", "i", "n", "g", " ",
    "f", "a", "i", "l", "e", "d", ":", " ">>

\* the catch block of renderInvoiceToHtml: new Error(`Template rendering failed: ${error.message}`)
RenderError(r) ==
  IF r.kind = "error" THEN [name |-> "Error", message |-> kFailed \o MessageOf(r.err)]
  ELSE NoError

\* console.error(template.substring(0, 1000)) in the catch block of evaluateTemplate
LogLimit == 1000
LoggedOf(r, template) == IF r.kind = "error" THEN <<Substring(template, 0, LogLimit)>> ELSE <<>>

\* no call of renderInvoiceToHtml is under way
RenderIdle ==
  /\ tsxTemplate = <<>> /\ context = VNull /\ debugFile = <<>> /\ pc = "idle"
  /\ htmlTemplate = <<>> /\ result = NoResult /\ thrown = NoError /\ console = <<>>
  /\ calls = 0 /\ previous = NoResult

\* no export request is under way
ExportIdle ==
  /\ step = "idle" /\ invoice = VNull /\ styling = VNull /\ html = NoDocument
  /\ pdfBuffer = NoBytes /\ browser = "none" /\ failure = NoError /\ response = NoResponse
  /\ fallback = <<>>

\* no listing is under way
PageIdle ==
  /\ rows = {} /\ query = [limit |-> 0, status |-> ""] /\ cursor = VNull /\ pages = <<>>
  /\ paging = "idle"

\* the compiler is not running
CompileIdle == stack = <<>>

\* the list page is not open
ListIdle ==
  /\ requests = <<>> /\ abortControllerRef = 0 /\ filteredInvoices = <<>> /\ totalCount = 0
  /\ loading = FALSE

\* no invoice is being updated
UpdateIdle == storedItems = <<>> /\ updating = [step |-> "idle", items |-> <<>>, logged |-> <<>>]

LaterIdle == CompileIdle /\ ListIdle /\ UpdateIdle

Init ==
  /\ tsxTemplate \in Templates
  /\ context \in Contexts
  /\ writable \in BOOLEAN
  /\ debugFile = <<>>
  /\ pc = "start"
  /\ htmlTemplate = <<>>
  /\ result = NoResult
  /\ thrown = NoError
  /\ console = <<>>
  /\ calls = 0
  /\ previous = NoResult
  /\ ExportIdle
  /\ PageIdle
  /\ LaterIdle

\* renderInvoiceToHtml, step 1: the template is transformed unless it is a template literal
Transform ==
  /\ pc = "start"
  /\ htmlTemplate' = htmlTemplateOf(tsxTemplate)
  /\ pc' = "compiled"
  /\ UNCHANGED <<tsxTemplate, context, writable, debugFile, result, thrown, console, calls,
                 previous, exportVars, pageVars, laterVars>>

\* renderInvoiceToHtml, steps 2 and 3: createSafeContext and evaluateTemplate; an error is
\* logged with the start of the template and thrown again as
\* Error('Template rendering failed: ...')
Evaluate ==
  /\ pc = "compiled"
  /\ result' = evaluateTemplate(htmlTemplate, createSafeContext(context), writable)
  /\ thrown' = RenderError(result')
  /\ console' = console \o LoggedOf(result', htmlTemplate)
  /\ debugFile' = IF writable THEN htmlTemplate ELSE debugFile
  /\ pc' = "done"
  /\ UNCHANGED <<tsxTemplate, context, writable, htmlTemplate, calls, previous, exportVars,
                 pageVars, laterVars>>

\* the caller renders the same template with the same data once more
CallAgain ==
  /\ pc = "done"
  /\ result.kind # "exit"
  /\ calls < MaxCalls
  /\ previous' = result
  /\ calls' = calls + 1
  /\ pc' = "start"
  /\ htmlTemplate' = <<>>
  /\ result' = NoResult
  /\ thrown' = NoError
  /\ UNCHANGED <<tsxTemplate, context, writable, debugFile, console, exportVars, pageVars, laterVars>>

\* between two calls the directory of the debug file appears or disappears
EnvChange ==
  /\ pc = "done"
  /\ result.kind # "exit"
  /\ writable' = ~writable
  /\ UNCHANGED <<renderVars, exportVars, pageVars, laterVars>>

Next == Transform \/ Evaluate \/ CallAgain \/ EnvChange

Spec == Init /\ [][Next]_vars

(***************************************************************************)
(* The export request: GET of /invoice/[id]/download loads the invoice,    *)
(* builds its document from the custom template or the default one, has    *)
(* generatePdf print it in a headless browser and answers.                 *)
(***************************************************************************)
kQuantity == <<"q", "u", "a", "n", "t", "i", "t", "y">>
kUnitPrice == <<"u", "n", "i", "t", "_", "p", "r", "i", "c", "e">>
kFailedPdf == <<"F", "a", "i", "l", "e", "d", " ", "t", "o", " ", "g", "e", "n", "e", "r", "a",
    "t", "e", " ", "P", "D", "F", ":", " ">>
kPdfFailed == <<"P", "D", "F", " ", "g", "e", "n", "e", "r", "a", "t", "i", "o", "n", " ", "f",
    "a", "i", "l", "e", "d", ":", " ">>
kAttachment == <<"a", "t", "t", "a", "c", "h", "m", "e", "n", "t", ";", " ", "f", "i", "l",
    "e", "n", "a", "m", "e", "=">>

\* a line item as invoice_items stores it
StoredItem(k) ==
  VObj((kName :> VStr(ItemName(k))) @@ (kQuantity :> VNum(2)) @@ (kUnitPrice :> VNum(5)))

\* what getById returns: the row of the invoice with its items, currency and company
StoredInvoice(subtotal, n) ==
  VObj((kInvoiceNumber :> VStr(kInvNumber)) @@ (kTotalAmount :> VNum(1500))
         @@ (kSubtotalAmount :> subtotal) @@ (kNotes :> VNull) @@ (kDueDate :> VStr(kDate))
         @@ (kItems :> VArr([k \in 1..n |-> StoredItem(k)]))
         @@ (kCompany :> VObj(kName :> VStr(kAcme)))
         @@ (kCurrency :> VObj(kSymbol :> VStr(<<"$">>))))

\* the invoices a request can load: subtotal_amount is a column that may be null
StoredInvoices == {StoredInvoice(subtotal, n) : subtotal \in {VNull, VNum(1200)}, n \in 0..1}

\* the stylings a template of the database can have
Stylings == {VStr(t) : t \in {tplConcrete, tplUnknown, tplMapOpen, tplExit}}

\* n.toFixed(2) of a whole number
ToFixed(n) == NumToString(n) \o <<".", "0", "0">>

\* a row of the items table of the default template
DefaultItem(inv, item) ==
  <<"<", "s", "p", "a", "n", ">">> \o JsToString(GetField(item, kName)) \o <<"<", "/", "s",
      "p", "a", "n", ">", "<", "s", "p", "a", "n", ">">>
    \o JsToString(GetField(item, kQuantity)) \o <<"<", "/", "s", "p", "a", "n", ">", "<", "s",
        "p", "a", "n", ">">>
    \o JsToString(GetField(GetField(inv, kCurrency), kSymbol))
    \o ToFixed(GetField(item, kQuantity).n * GetField(item, kUnitPrice).n) \o <<"<", "/", "s",
        "p", "a", "n", ">">>

RECURSIVE DefaultItems(_, _)
\* invoice.items.map(...).join('') of the default template, from item k on
DefaultItems(inv, k) ==
  IF k > Len(GetField(inv, kItems).a) THEN <<>>
  ELSE DefaultItem(inv, GetField(inv, kItems).a[k]) \o DefaultItems(inv, k + 1)

\* InvoiceHtml: the default template, a template literal over the invoice; the markup between
\* its interpolations is shortened.  invoice.subtotal_amount.toFixed and
\* invoice.total_amount.toFixed throw a TypeError on null
InvoiceHtml(inv) ==
  IF \/ IsNullish(GetField(inv, kCurrency))
     \/ IsNullish(GetField(inv, kSubtotalAmount))
     \/ IsNullish(GetField(inv, kTotalAmount))
  THEN [kind |-> "error", err |-> "TypeError", out |-> <<>>]
  ELSE [kind |-> "ok", err |-> "",
        out |-> <<"<", "h", "t", "m", "l", ">", "<", "b", "o", "d", "y", ">", "<", "p", ">",
            "#">> \o JsToString(GetField(inv, kInvoiceNumber))
                  \o <<"<", "/", "p", ">", "<", "h", "1", ">">>
                  \o JsToString(JsOr(GetField(GetField(inv, kCompany), kName), VStr(<<>>)))
                  \o <<"<", "/", "h", "1", ">">> \o DefaultItems(inv, 1)
                  \o <<"<", "p", ">">> \o JsToString(GetField(inv, kNotes)) \o <<"<", "/", "p",
                      ">", "<", "s", "p", "a", "n", ">">>
                  \o JsToString(GetField(GetField(inv, kCurrency), kSymbol))
                  \o ToFixed(GetField(inv, kSubtotalAmount).n) \o <<"<", "/", "s", "p", "a",
                      "n", ">", "<", "s", "p", "a", "n", ">">>
                  \o JsToString(GetField(GetField(inv, kCurrency), kSymbol))
                  \o ToFixed(GetField(inv, kTotalAmount).n) \o <<"<", "/", "s", "p", "a", "n",
                      ">", "<", "/", "b", "o", "d", "y", ">", "<", "/", "h", "t", "m", "l", ">">>]

\* customInvoiceHtml: the rendered template inside a complete document
customInvoiceHtml(bodyContent) ==
  <<"<", "h", "t", "m", "l", ">", "<", "b", "o", "d", "y", " ", "c", "l", "a", "s", "s", "=",
      "\"", "b", "g", "-", "w", "h", "i", "t", "e", "\"", ">">> \o bodyContent \o <<"<", "/",
      "b", "o", "d", "y", ">", "<", "/", "h", "t", "m", "l", ">">>

\* the TemplateContext GET hands to renderInvoiceToHtml
ContextOfInvoice(inv) ==
  [invoice |-> inv, company |-> GetField(inv, kCompany), currency |-> GetField(inv, kCurrency)]

\* renderInvoiceToHtml, steps 2 and 3 and the catch block, for the text htmlTemplate of step 1
RenderCompiled(htmlTemplate_, ctx, canWrite) ==
  With(evaluateTemplate(htmlTemplate_, createSafeContext(ctx), canWrite), LAMBDA r :
    [kind |-> r.kind, out |-> r.out, error |-> RenderError(r)])

\* renderInvoiceToHtml as one call: the string it returns, the error it throws, or the end of
\* the process
renderInvoiceToHtml(template, ctx, canWrite) ==
  With(htmlTemplateOf(template), LAMBDA h :
    IF h = h THEN RenderCompiled(h, ctx, canWrite) ELSE RenderCompiled(<<>>, ctx, canWrite))

\* fullHtml of generatePdf: the document inside a page with the print styles
fullHtml(document) == <<"<", "h", "t", "m", "l", " ", "l", "a", "n", "g", "=", "\"", "e", "n",
    "\"", ">", "<", "b", "o", "d", "y", ">">> \o document \o <<"<", "/", "b", "o", "d", "y",
    ">", "<", "/", "h", "t", "m", "l", ">">>

ExportInit ==
  /\ RenderIdle
  /\ PageIdle
  /\ LaterIdle
  /\ writable \in BOOLEAN
  /\ step = "request"
  /\ invoice \in StoredInvoices
  /\ styling \in Stylings \cup {VNull}
  /\ html = NoDocument
  /\ pdfBuffer = NoBytes
  /\ browser = "none"
  /\ failure = NoError
  /\ response = NoResponse
  /\ fallback = <<>>

\* an awaited call throws: the error travels to the catch block at step to
Throws(name, message, to) ==
  /\ failure' = [name |-> name, message |-> message]
  /\ step' = to

\* GET: invoicesApi.getById answers with the invoice, or throws because the fetch failed or
\* no row has the id
LoadInvoice ==
  /\ step = "request"
  /\ \E answer \in {"row", "failed", "missing"} :
       IF answer = "row" THEN step' = "template" /\ failure' = failure
       ELSE IF answer = "failed" THEN Throws("Error", <<"F", "a", "i", "l", "e", "d", " ", "t",
           "o", " ", "f", "e", "t", "c", "h", " ", "i", "n", "v", "o", "i", "c", "e">>, "catch")
       ELSE Throws("Error", <<"I", "n", "v", "o", "i", "c", "e", " ", "n", "o", "t", " ", "f",
           "o", "u", "n", "d">>, "catch")
  /\ UNCHANGED <<renderVars, writable, pageVars, laterVars, invoice, styling, html, pdfBuffer, browser,
                 response, fallback>>

\* GET: templatesApi.getAll for an invoice that has a template
LoadTemplate ==
  /\ step = "template"
  /\ \E ok \in BOOLEAN :
       IF ok \/ styling = VNull THEN step' = "render" /\ failure' = failure
       ELSE Throws("Error", <<"F", "a", "i", "l", "e", "d", " ", "t", "o", " ", "f", "e", "t",
           "c", "h", " ", "t", "e", "m", "p", "l", "a", "t", "e", "s">>, "catch")
  /\ UNCHANGED <<renderVars, writable, pageVars, laterVars, invoice, styling, html, pdfBuffer, browser,
                 response, fallback>>

\* GET: the document of the default template, or the TypeError InvoiceHtml throws
UseDefault(r) ==
  IF r.kind = "ok"
  THEN html' = [from |-> "default", text |-> r.out] /\ step' = "launch" /\ failure' = failure
  ELSE html' = html /\ Throws(r.err, MessageOf(r.err), "catch")

\* GET: the document of the custom template; when rendering throws, the error is logged and
\* the default template is used; when the template ends the process, nothing follows
UseCustom(r) ==
  IF r.kind = "ok"
  THEN /\ html' = [from |-> "custom", text |-> customInvoiceHtml(r.out)]
       /\ step' = "launch" /\ failure' = failure /\ fallback' = fallback
  ELSE IF r.kind = "exit"
  THEN html' = html /\ step' = "exited" /\ failure' = failure /\ fallback' = fallback
  ELSE fallback' = fallback \o <<r.error>> /\ UseDefault(InvoiceHtml(invoice))

\* GET: the document is built from the custom template or from the default one
BuildHtml ==
  /\ step = "render"
  /\ IF styling # VNull
     THEN /\ UseCustom(renderInvoiceToHtml(styling.s, ContextOfInvoice(invoice), writable))
          /\ debugFile' = IF writable THEN htmlTemplateOf(styling.s) ELSE debugFile
     ELSE UseDefault(InvoiceHtml(invoice)) /\ UNCHANGED <<fallback, debugFile>>
  /\ UNCHANGED <<tsxTemplate, context, pc, htmlTemplate, result, thrown, console, calls,
                 previous, writable, pageVars, laterVars, invoice, styling, pdfBuffer, browser, response>>

\* the headless browser after an awaited call on it failed: the call timed out or was
\* refused and the browser still runs, or the browser is gone
AfterFailure == {"open", "crashed"}

\* generatePdf: puppeteer.launch starts the browser or throws after its timeout
Launch ==
  /\ step = "launch"
  /\ \E ok \in BOOLEAN :
       IF ok THEN browser' = "open" /\ step' = "newPage" /\ failure' = failure
       ELSE browser' = browser /\ Throws("TimeoutError", MessageOf("launch"), "pdfCatch")
  /\ UNCHANGED <<renderVars, writable, pageVars, laterVars, invoice, styling, html, pdfBuffer, response,
                 fallback>>

\* generatePdf: an awaited call on the open browser between launch and page.pdf
PageCall(at, to) ==
  /\ \E ok \in BOOLEAN :
       IF ok THEN browser' = browser /\ step' = to /\ failure' = failure
       ELSE browser' \in AfterFailure /\ Throws("Error", MessageOf(at), "pdfCatch")
  /\ UNCHANGED <<renderVars, writable, pageVars, laterVars, invoice, styling, html, pdfBuffer, response,
                 fallback>>

\* generatePdf: browser.newPage()
NewPage ==
  /\ step = "newPage"
  /\ PageCall("newPage", "setContent")

\* generatePdf: page.setContent(fullHtml, {waitUntil: 'networkidle0'})
SetContent ==
  /\ step = "setContent"
  /\ PageCall("setContent", "fonts")

\* generatePdf: page.evaluateHandle('document.fonts.ready') and the wait of 500 ms
FontsReady ==
  /\ step = "fonts"
  /\ PageCall("fonts", "pdf")

\* generatePdf: page.pdf gives the bytes of the document, or throws
Pdf ==
  /\ step = "pdf"
  /\ \E ok \in BOOLEAN :
       IF ok
       THEN /\ pdfBuffer' = [kind |-> "pdf", of |-> fullHtml(html.text)]
            /\ browser' = browser /\ step' = "pdfFinally" /\ failure' = failure
       ELSE /\ pdfBuffer' = pdfBuffer
            /\ browser' \in AfterFailure /\ Throws("Error", MessageOf("pdf"), "pdfCatch")
  /\ UNCHANGED <<renderVars, writable, pageVars, laterVars, invoice, styling, html, response, fallback>>

\* generatePdf, catch: the error is thrown again as Error('PDF generation failed: ...')
PdfCatch ==
  /\ step = "pdfCatch"
  /\ Throws("Error", kPdfFailed \o failure.message, "pdfFinally")
  /\ UNCHANGED <<renderVars, writable, pageVars, laterVars, invoice, styling, html, pdfBuffer, browser,
                 response, fallback>>

\* where generatePdf hands over after its finally block: to GET's catch block with the error it
\* throws, or to the statement after the call with the bytes it returns
AfterFinally(error) ==
  /\ failure' = error
  /\ step' = IF error # NoError THEN "catch" ELSE "respond"

\* a finally block that leaves the browser as it is
PdfFinallyKeepsBrowser ==
  /\ step = "pdfFinally"
  /\ browser' = browser
  /\ AfterFinally(failure)
  /\ UNCHANGED <<renderVars, writable, pageVars, laterVars, invoice, styling, html, pdfBuffer, response,
                 fallback>>

\* generatePdf, finally: if (browser) await browser.close().  Closing ends a running browser;
\* on a browser that is gone it does nothing or throws, and that error replaces the pending one
PdfFinally ==
  /\ step = "pdfFinally"
  /\ \/ browser = "none" /\ browser' = browser /\ AfterFinally(failure)
     \/ browser = "open" /\ browser' = "closed" /\ AfterFinally(failure)
     \/ /\ browser = "crashed" /\ browser' = browser
        /\ \E ok \in BOOLEAN :
             AfterFinally(IF ok THEN failure
                          ELSE [name |-> "Error", message |-> MessageOf("close")])
  /\ UNCHANGED <<renderVars, writable, pageVars, laterVars, invoice, styling, html, pdfBuffer, response,
                 fallback>>

\* GET: the bytes are answered as a download
Respond ==
  /\ step = "respond"
  /\ response' =
       [status |-> 200, type |-> "application/pdf",
        disposition |-> kAttachment \o <<DQ>> \o <<"i", "n", "v", "o", "i", "c", "e", "-">>
                          \o JsToString(GetField(invoice, kInvoiceNumber)) \o <<".", "p", "d",
                              "f">> \o <<DQ>>,
        body |-> pdfBuffer]
  /\ step' = "done"
  /\ UNCHANGED <<renderVars, writable, pageVars, laterVars, invoice, styling, html, pdfBuffer, browser,
                 failure, fallback>>

\* GET, catch: the error is answered as text with status 500
Catch ==
  /\ step = "catch"
  /\ response' =
       [status |-> 500, type |-> "text/plain", disposition |-> <<>>,
        body |-> [kind |-> "text", of |-> kFailedPdf \o failure.message]]
  /\ step' = "done"
  /\ UNCHANGED <<renderVars, writable, pageVars, laterVars, invoice, styling, html, pdfBuffer, browser,
                 failure, fallback>>

ExportNext ==
  \/ LoadInvoice \/ LoadTemplate \/ BuildHtml
  \/ Launch \/ NewPage \/ SetContent \/ FontsReady \/ Pdf \/ PdfCatch \/ PdfFinally
  \/ Respond \/ Catch

ExportSpec == ExportInit /\ [][ExportNext]_vars
(***************************************************************************)
(* The listing of invoices: invoicesApi.getAllWithCursor fetches a page    *)
(* of the invoices table, and its caller passes the cursor it returns to   *)
(* the next call until the cursor is null.                                 *)
(***************************************************************************)
\* the most rows the invoices table has
MaxRows == 3
\* the number of distinct created_at values
MaxTime == 2
\* the largest page size
MaxLimit == 2

\* the tables the listing can run against: row i is there when at[i] is a created_at value
Tables ==
  {{[id |-> i, created_at |-> at[i], cancelled |-> gone[i]] :
       i \in {j \in 1..MaxRows : at[j] > 0}} :
     at \in [1..MaxRows -> 0..MaxTime], gone \in [1..MaxRows -> BOOLEAN]}

\* order=created_at.desc,id.desc: row a comes before row b
Before(a, b) == a.created_at > b.created_at \/ (a.created_at = b.created_at /\ a.id > b.id)

RECURSIVE Ordered(_)
\* the rows of a set in the order created_at.desc,id.desc
Ordered(t) ==
  IF t = {} THEN <<>>
  ELSE With(CHOOSE a \in t : \A b \in t \ {a} : Before(a, b), LAMBDA first :
         <<first>> \o Ordered(t \ {first}))

\* status=eq.cancelled or status=neq.cancelled
MatchesStatus(row, status) == row.cancelled = (status = "cancelled")

\* created_at=lt.<cursor.createdAt>, the one condition the cursor adds to the request
AfterCursor(row, c) == c = VNull \/ row.created_at < c.createdAt

\* the rows the server answers to the request of getAllWithCursor: filtered, ordered, and
\* at most limit + 1 of them
Fetched(t, q, c) ==
  With(Ordered({row \in t : MatchesStatus(row, q.status) /\ AfterCursor(row, c)}), LAMBDA all :
    SubSeq(all, 1, Min(Len(all), q.limit + 1)))

\* getAllWithCursor after response.json(): the page and the cursor of the next one
PageOf(data, limit) ==
  With(IF Len(data) > limit THEN SubSeq(data, 1, limit) ELSE data, LAMBDA pageData :
    [data |-> pageData,
     hasNext |-> Len(data) > limit,
     nextCursor |-> IF Len(data) > limit /\ Len(pageData) > 0
                    THEN [createdAt |-> pageData[Len(pageData)].created_at,
                          id |-> pageData[Len(pageData)].id]
                    ELSE VNull])

getAllWithCursor(t, q, c) == PageOf(Fetched(t, q, c), q.limit)

PageInit ==
  /\ RenderIdle
  /\ ExportIdle
  /\ LaterIdle
  /\ writable = FALSE
  /\ rows \in Tables
  /\ query \in [limit : 1..MaxLimit, status : {"active", "cancelled"}]
  /\ cursor = VNull
  /\ pages = <<>>
  /\ paging = "more"

\* a page that came back: its ids are appended, its cursor is kept for the next call
TakePage(page) ==
  /\ pages' = pages \o [k \in 1..Len(page.data) |-> page.data[k].id]
  /\ cursor' = page.nextCursor
  /\ paging' = IF page.nextCursor = VNull THEN "end" ELSE "more"

\* one call of getAllWithCursor with the cursor of the call before; the call throws when the
\* response is not ok
FetchPage ==
  /\ paging = "more"
  /\ \E ok \in BOOLEAN :
       IF ok THEN TakePage(getAllWithCursor(rows, query, cursor))
       ELSE paging' = "failed" /\ UNCHANGED <<pages, cursor>>
  /\ UNCHANGED <<renderVars, writable, exportVars, laterVars, rows, query>>

PageNext == FetchPage

PageSpec == PageInit /\ [][PageNext]_vars

(***************************************************************************)
(* The compiler step by step.  A frame of the stack is a call of one of    *)
(* its functions: the text it works on, the loop it is in (phase), the     *)
(* variables of that loop and what it has built so far.  A replace of the  *)
(* library is one step, a loop of the compiler one step for each           *)
(* iteration.                                                              *)
(***************************************************************************)
\* a call of the function fn on a text, before its first loop
Frame(fn, text) ==
  [fn |-> fn, text |-> text, phase |-> "loop", i |-> 0, depth |-> 0, start |-> 0,
   st |-> FindStart, todo |-> <<>>, parts |-> <<>>, out |-> <<>>]

\* the call that runs
Top == stack[Len(stack)]

\* the stack with its running call replaced by f
WithTop(f) == [stack EXCEPT ![Len(stack)] = f]

Copiers == {"parseAndConvertJsx", "convertJsxToTemplateLiteral"}
Finders == {"convertTernaryExpression", "convertAndExpression"}

\* all templates the compiler is called on
AllTemplates == Templates \cup ScannerTemplates

\* renderInvoiceToHtml hands a template in the interpolation form on as it is and calls
\* transformJsxToHtml for a markup template
StartCompile ==
  /\ pc = "start" /\ stack = <<>>
  /\ IF isTemplateLiteral(tsxTemplate)
     THEN pc' = "compiled" /\ htmlTemplate' = tsxTemplate /\ stack' = stack
     ELSE /\ pc' = "compiling"
          /\ htmlTemplate' = htmlTemplate
          /\ stack' = <<[Frame("transformJsxToHtml", tsxTemplate) EXCEPT !.phase = "passes"]>>
  /\ UNCHANGED <<tsxTemplate, context, writable, debugFile, result, thrown, console, calls,
                 previous, exportVars, pageVars, listVars, updateVars>>

\* what every step of the compiler leaves alone
CompilerStep ==
  /\ pc = "compiling" /\ stack # <<>>
  /\ UNCHANGED <<renderVars, writable, exportVars, pageVars, listVars, updateVars>>

\* the passes of transformJsxToHtml: steps 1 to 3, the parser as step 4, step 5, and one
\* replace for each of the selfClosingTags
ParserPass == 4
LastPass == 5 + Len(selfClosingTags)

\* the text after the replace that is pass k
Pass(k, s) ==
  CASE k = 1 -> RemoveDelimited(s, <<"<", "!", "-", "-">>, <<"-", "-", ">">>)
    [] k = 2 -> RemoveDelimited(s, <<"{", "/", "*">>, <<"*", "/", "}">>)
    [] k = 3 -> ReplaceAll(s, kClassName, kClass)
    [] k = 5 -> FixOptionalChaining(s)
    [] OTHER -> CloseSelfClosing(s, selfClosingTags[k - 5])

\* result = result.replace(...)
Replace ==
  /\ CompilerStep
  /\ Top.fn = "transformJsxToHtml" /\ Top.phase = "passes"
  /\ Top.i < LastPass /\ Top.i + 1 # ParserPass
  /\ stack' = WithTop([Top EXCEPT !.i = Top.i + 1, !.text = Pass(Top.i + 1, Top.text)])

\* result = parseAndConvertJsx(result)
CallParser ==
  /\ CompilerStep
  /\ Top.fn = "transformJsxToHtml" /\ Top.phase = "passes" /\ Top.i + 1 = ParserPass
  /\ stack' = Append(WithTop([Top EXCEPT !.phase = "calls"]),
                     Frame("parseAndConvertJsx", Top.text))

\* the tests of parseAndConvertJsx (line 148) and convertJsxToTemplateLiteral (line 414) for
\* the start of an embedded expression
AtExpression(f) ==
  /\ f.i < Len(f.text)
  /\ At(f.text, f.i) = "{"
  /\ f.fn = "parseAndConvertJsx" => (f.i > 0 /\ At(f.text, f.i - 1) # "$")

\* what result.push adds for the character c: convertJsxToTemplateLiteral escapes the
\* backquote and the backslash, parseAndConvertJsx copies every character
Pushed(fn, c) ==
  IF fn = "convertJsxToTemplateLiteral" /\ c \in {BT, BS} THEN <<BS, c>> ELSE <<c>>

\* result.push(char); i++
CopyChar ==
  /\ CompilerStep
  /\ Top.fn \in Copiers /\ Top.i < Len(Top.text) /\ ~AtExpression(Top)
  /\ stack' = WithTop([Top EXCEPT !.i = Top.i + 1,
                                  !.out = Top.out \o Pushed(Top.fn, At(Top.text, Top.i))])

\* const exprResult = parseJsxExpression(chars, i)
OpenExpression ==
  /\ CompilerStep
  /\ Top.fn \in Copiers /\ AtExpression(Top)
  /\ stack' = Append(stack, [Frame("parseJsxExpression", Top.text) EXCEPT
                               !.phase = "scan", !.start = Top.i, !.st = ScanStart(Top.i)])

\* while (i < chars.length && braceDepth > 0)
Scanning(f) == f.phase = "scan" /\ f.st.i < Len(f.text) /\ f.st.braceDepth > 0

\* one iteration of the loop of parseJsxExpression
ScanChar ==
  /\ CompilerStep
  /\ Top.fn = "parseJsxExpression" /\ Scanning(Top)
  /\ stack' = WithTop([Top EXCEPT !.st = ScanStep(Top.text, Top.st)])

\* a classification that tries the && rewrite before the ternary rewrite
ConverterAndFirst(f) ==
  IF HasMapCall(Substring(f.text, f.start + 1, f.start + 1 + PeekAhead))
  THEN "convertMapExpression"
  ELSE IF f.st.isAndExpression THEN "convertAndExpression"
  ELSE IF f.st.isTernaryExpression THEN "convertTernaryExpression"
  ELSE ""

\* the converter parseJsxExpression calls after its loop, "" when it calls none
ConverterOf(f) ==
  IF HasMapCall(Substring(f.text, f.start + 1, f.start + 1 + PeekAhead))
  THEN "convertMapExpression"
  ELSE IF f.st.isTernaryExpression THEN "convertTernaryExpression"
  ELSE IF f.st.isAndExpression THEN "convertAndExpression"
  ELSE ""

\* convertMapExpression up to its first loop: expr.indexOf('.map('), and the test for a
\* parenthesis before the parameters; start is mapIndex
MapFrame(expr) ==
  With(IndexOf(expr, kMapOpen), LAMBDA mapIndex :
    IF mapIndex = -1 THEN [Frame("convertMapExpression", expr) EXCEPT !.phase = "asis"]
    ELSE IF At(expr, mapIndex + 5) = "("
    THEN [Frame("convertMapExpression", expr) EXCEPT
            !.phase = "params", !.start = mapIndex, !.i = mapIndex + 6, !.depth = 1]
    ELSE [Frame("convertMapExpression", expr) EXCEPT
            !.phase = "untilArrow", !.start = mapIndex, !.i = mapIndex + 5])

\* the call of a converter on the text the scanner returned
ConverterFrame(fn, expr) ==
  IF fn = "convertMapExpression" THEN MapFrame(expr)
  ELSE [Frame(fn, expr) EXCEPT !.phase = "find"]

\* lines 270-282 of parseJsxExpression: the scanner's loop is over
Classify ==
  /\ CompilerStep
  /\ Top.fn = "parseJsxExpression" /\ Top.phase = "scan" /\ ~Scanning(Top)
  /\ IF ConverterOf(Top) = ""
     THEN stack' = WithTop([Top EXCEPT !.phase = "return", !.out = Top.st.expressionChars])
     ELSE stack' = Append(WithTop([Top EXCEPT !.phase = "convert"]),
                          ConverterFrame(ConverterOf(Top), Top.st.expressionChars))

\* the loops of convertMapExpression that count parentheses or braces
Counting == {"params", "bodyParen", "bodyBrace"}

\* the loops of convertMapExpression
MapLoops == Counting \cup {"untilArrow", "space1", "space2", "bodyBare"}

\* the condition of the loop a call of convertMapExpression is in
MapLooping(f) ==
  /\ f.i < Len(f.text)
  /\ CASE f.phase \in Counting    -> f.depth > 0
       [] f.phase = "untilArrow"  -> Substring(f.text, f.i, f.i + 2) # kArrow
       [] f.phase \in {"space1", "space2"} -> IsSpace(At(f.text, f.i))
       [] f.phase = "bodyBare"    -> At(f.text, f.i) # ")"
       [] OTHER -> FALSE

\* one iteration of the loop a call of convertMapExpression is in; out is the text the
\* loop collects (params, body)
MapIteration(f) ==
  IF f.phase \in Counting
  THEN With(ReadBalancedStep(f.text, IF f.phase = "bodyBrace" THEN "{" ELSE "(",
                             IF f.phase = "bodyBrace" THEN "}" ELSE ")",
                             [i |-> f.i, depth |-> f.depth, body |-> f.out]),
            LAMBDA rb : [f EXCEPT !.i = rb.i, !.depth = rb.depth, !.out = rb.body])
  ELSE IF f.phase \in {"untilArrow", "bodyBare"}
  THEN [f EXCEPT !.i = f.i + 1, !.out = Append(f.out, At(f.text, f.i))]
  ELSE [f EXCEPT !.i = f.i + 1]

\* the code of convertMapExpression between the loop it has left and its next loop; parts
\* gets the parameters and then the body
MapAfterLoop(f) ==
  CASE f.phase = "params" ->
         [f EXCEPT !.phase = "space1", !.i = IF f.i < Len(f.text) THEN f.i + 1 ELSE f.i,
                   !.parts = <<f.out>>, !.out = <<>>]
    [] f.phase = "untilArrow" ->
         [f EXCEPT !.phase = "space1", !.parts = <<Trim(f.out)>>, !.out = <<>>]
    [] f.phase = "space1" ->
         IF Substring(f.text, f.i, f.i + 2) = kArrow
         THEN [f EXCEPT !.phase = "space2", !.i = f.i + 2]
         ELSE [f EXCEPT !.phase = "asis"]
    [] f.phase = "space2" ->
         IF At(f.text, f.i) = "("
         THEN [f EXCEPT !.phase = "bodyParen", !.i = f.i + 1, !.depth = 1]
         ELSE IF At(f.text, f.i) = "{"
         THEN [f EXCEPT !.phase = "bodyBrace", !.i = f.i + 1, !.depth = 1]
         ELSE [f EXCEPT !.phase = "bodyBare"]
    [] f.phase = "bodyParen" ->
         [f EXCEPT !.phase = "parenCalls", !.i = f.i + 2, !.todo = <<f.out>>, !.out = <<>>]
    [] f.phase = "bodyBrace" ->
         [f EXCEPT !.phase = "braceCalls", !.i = f.i + 2, !.todo = <<f.out>>, !.out = <<>>]
    [] OTHER ->
         [f EXCEPT !.phase = "bare", !.i = f.i + 1, !.parts = Append(f.parts, f.out),
                   !.out = <<>>]

\* convertMapExpression: an iteration of a loop, or the code after a loop
MapStep ==
  /\ CompilerStep
  /\ Top.fn = "convertMapExpression" /\ Top.phase \in MapLoops
  /\ stack' = WithTop(IF MapLooping(Top) THEN MapIteration(Top) ELSE MapAfterLoop(Top))

\* the condition of the for loop of convertTernaryExpression or convertAndExpression: the
\* loop is left with break when the colon or the && is found
Finding(f) ==
  /\ f.phase = "find"
  /\ IF f.fn = "convertTernaryExpression"
     THEN f.st.i < Len(f.text) /\ f.st.colonIndex = -1
     ELSE f.st.i < Len(f.text) - 1 /\ f.st.andIndex = -1

\* one iteration of the for loop of convertTernaryExpression or convertAndExpression
FindStep ==
  /\ CompilerStep
  /\ Top.fn \in Finders /\ Finding(Top)
  /\ stack' = WithTop([Top EXCEPT !.st = IF Top.fn = "convertTernaryExpression"
                                         THEN FindTernaryStep(Top.text, Top.st)
                                         ELSE FindAndStep(Top.text, Top.st)])

\* the values convertTernaryExpression and convertAndExpression cut out of expr after
\* their loop: <<condition, trueValue, falseValue>>, <<condition, jsxPart>>, or nothing
\* when the operator was not found
CutValues(fn, expr, f) ==
  IF fn = "convertTernaryExpression"
  THEN IF f.questionIndex = -1 \/ f.colonIndex = -1 THEN <<>>
       ELSE <<Trim(Substring(expr, 0, f.questionIndex)),
              StripParens(Trim(Substring(expr, f.questionIndex + 1, f.colonIndex))),
              StripParens(Trim(SubstringFrom(expr, f.colonIndex + 1)))>>
  ELSE IF f.andIndex = -1 THEN <<>>
       ELSE <<Trim(Substring(expr, 0, f.andIndex)),
              StripParens(Trim(SubstringFrom(expr, f.andIndex + 2)))>>

\* trueValue.trim().startsWith('<')
IsJsx(v) == StartsWith(Trim(v), <<"<">>)

\* the values that are markup
MarkupOf(values) == IF values = <<>> THEN <<>> ELSE SelectSeq(Tail(values), IsJsx)

\* the code of convertTernaryExpression or convertAndExpression after its loop: the call
\* returns expr when it has found no markup, and converts the markup otherwise
FindEnd ==
  /\ CompilerStep
  /\ Top.fn \in Finders /\ Top.phase = "find" /\ ~Finding(Top)
  /\ stack' = WithTop(With(CutValues(Top.fn, Top.text, Top.st), LAMBDA values :
                        IF MarkupOf(values) = <<>> THEN [Top EXCEPT !.phase = "asis"]
                        ELSE [Top EXCEPT !.phase = "calls", !.parts = values,
                                         !.todo = MarkupOf(values)]))

\* the phases in which a converter calls convertJsxToTemplateLiteral
Calling == {"calls", "parenCalls", "braceCalls"}

\* const converted = convertJsxToTemplateLiteral(markup)
CallConvert ==
  /\ CompilerStep
  /\ Top.fn # "transformJsxToHtml" /\ Top.phase \in Calling /\ Top.todo # <<>>
  /\ stack' = Append(stack, Frame("convertJsxToTemplateLiteral", Head(Top.todo)))

\* the running call has reached its return statement
Returning(f) ==
  \/ f.fn \in Copiers /\ f.i >= Len(f.text)
  \/ f.phase \in {"return", "asis", "bare"}
  \/ f.fn # "transformJsxToHtml" /\ f.phase \in Calling /\ f.todo = <<>>

\* the value a branch of the ternary has in the result: converted when it is markup
Branch(value, converted) == IF IsJsx(value) THEN converted ELSE value

\* the text a converter returns; out collects what convertJsxToTemplateLiteral returned
Composed(f) ==
  CASE f.phase = "asis" -> f.text
    [] f.phase = "bare" ->
         Substring(f.text, 0, f.start) \o kFunction \o f.parts[1] \o <<")", " ", "{", " ">>
           \o kReturn \o f.parts[2] \o <<";", " ", "}">> \o kJoin \o SubstringFrom(f.text, f.i)
    [] f.phase = "parenCalls" ->
         Substring(f.text, 0, f.start) \o kFunction \o f.parts[1] \o <<")", " ", "{", " ">>
           \o kReturn \o <<BT>> \o f.parts[2] \o <<BT, ";", " ", "}">> \o kJoin
           \o SubstringFrom(f.text, f.i)
    [] f.phase = "braceCalls" ->
         Substring(f.text, 0, f.start) \o kFunction \o f.parts[1] \o <<")", " ", "{", " ">>
           \o f.parts[2] \o <<" ", "}">> \o kJoin \o SubstringFrom(f.text, f.i)
    [] f.fn = "convertAndExpression" ->
         f.parts[1] \o <<" ", "?", " ", BT>> \o f.parts[3] \o <<BT, " ", ":", " ", "'", "'">>
    [] OTHER ->
         f.parts[1] \o <<" ", "?", " ", BT>> \o Branch(f.parts[2], f.parts[4])
           \o <<BT, " ", ":", " ", BT>>
           \o Branch(f.parts[3], f.parts[IF IsJsx(f.parts[2]) THEN 5 ELSE 4]) \o <<BT>>

\* the value the returning call f returns
Returned(f) ==
  IF f.fn \in Copiers \/ f.fn = "parseJsxExpression" THEN f.out ELSE Composed(f)

\* a caller that starts again at the brace of the expression it has just read
ResumedAtBrace(caller, f) ==
  CASE caller.fn = "transformJsxToHtml" ->
         [caller EXCEPT !.phase = "passes", !.i = ParserPass, !.text = Returned(f)]
    [] caller.fn \in Copiers ->
         [caller EXCEPT !.i = f.start,
                        !.out = caller.out \o kDollar \o Returned(f) \o <<"}">>]
    [] caller.fn = "parseJsxExpression" -> [caller EXCEPT !.phase = "return", !.out = Returned(f)]
    [] OTHER -> [caller EXCEPT !.todo = Tail(caller.todo), !.parts = Append(caller.parts, Returned(f))]

\* the caller after the call f returned: transformJsxToHtml goes on with step 5,
\* parseAndConvertJsx and convertJsxToTemplateLiteral push the expression and go on after
\* it (i = exprResult.endIndex + 1), parseJsxExpression returns what its converter
\* returned, a converter keeps the converted markup
Resumed(caller, f) ==
  CASE caller.fn = "transformJsxToHtml" ->
         [caller EXCEPT !.phase = "passes", !.i = ParserPass, !.text = Returned(f)]
    [] caller.fn \in Copiers ->
         [caller EXCEPT !.i = f.st.i + 1,
                        !.out = caller.out \o kDollar \o Returned(f) \o <<"}">>]
    [] caller.fn = "parseJsxExpression" -> [caller EXCEPT !.phase = "return", !.out = Returned(f)]
    [] OTHER -> [caller EXCEPT !.todo = Tail(caller.todo), !.parts = Append(caller.parts, Returned(f))]

\* a call returns to its caller
Return ==
  /\ CompilerStep
  /\ Len(stack) > 1 /\ Returning(Top)
  /\ stack' = [SubSeq(stack, 1, Len(stack) - 1) EXCEPT
                 ![Len(stack) - 1] = Resumed(stack[Len(stack) - 1], Top)]

\* transformJsxToHtml returns after its last replace
Finish ==
  /\ pc = "compiling" /\ Len(stack) = 1
  /\ Top.fn = "transformJsxToHtml" /\ Top.phase = "passes" /\ Top.i = LastPass
  /\ stack' = <<>>
  /\ pc' = "compiled"
  /\ htmlTemplate' = Top.text
  /\ UNCHANGED <<tsxTemplate, context, writable, debugFile, result, thrown, console, calls,
                 previous, exportVars, pageVars, listVars, updateVars>>

\* a call of the compiler on any of the templates
CompileInit ==
  /\ tsxTemplate \in AllTemplates
  /\ context = VNull /\ writable = FALSE /\ debugFile = <<>> /\ pc = "start"
  /\ htmlTemplate = <<>> /\ result = NoResult /\ thrown = NoError /\ console = <<>>
  /\ calls = 0 /\ previous = NoResult
  /\ ExportIdle /\ PageIdle /\ LaterIdle

CompileNext ==
  \/ StartCompile \/ Replace \/ CallParser \/ CopyChar \/ OpenExpression \/ ScanChar
  \/ Classify \/ MapStep \/ FindStep \/ FindEnd \/ CallConvert \/ Return \/ Finish

\* the compiler is a sequential program: while it has a next step, it takes it
CompileSpec == CompileInit /\ [][CompileNext]_vars /\ WF_vars(CompileNext)

(***************************************************************************)
(* The invoice list page: loadInvoices and the requests it has under way.  *)
(* Request k is answered with the rows <<k>> and the total count k, so     *)
(* that what the page shows tells which request it came from.              *)
(***************************************************************************)
\* the most requests the page starts
MaxRequests == 4

\* the rows and the total count invoicesApi.getAll answers to request k
RowsOf(k) == IF k = 0 THEN <<>> ELSE <<k>>
TotalOf(k) == k

\* what the actions of the page leave alone
ListStep == UNCHANGED <<renderVars, writable, exportVars, pageVars, stack, updateVars>>

\* loadInvoices up to its await: the previous request is aborted, the new controller is
\* kept, loading is set and the rows are cleared
LoadInvoices ==
  /\ Len(requests) < MaxRequests
  /\ requests' = Append([k \in 1..Len(requests) |->
                           IF k = abortControllerRef THEN [requests[k] EXCEPT !.aborted = TRUE]
                           ELSE requests[k]],
                        [aborted |-> FALSE, outcome |-> "pending"])
  /\ abortControllerRef' = Len(requests) + 1
  /\ loading' = TRUE
  /\ filteredInvoices' = <<>>
  /\ totalCount' = totalCount
  /\ ListStep

\* request k is under way
Pending(k) == k \in 1..Len(requests) /\ requests[k].outcome = "pending"

\* finally { if (!abortController.signal.aborted) setLoading(false) }
LoadFinally(k) == loading' = IF requests[k].aborted THEN loading ELSE FALSE

\* invoicesApi.getAll resolves for request k, also when the answer was on its way before
\* the request was aborted: the rest of the try block, and the finally block
Resolve ==
  \E k \in 1..MaxRequests :
    /\ Pending(k)
    /\ requests' = [requests EXCEPT ![k].outcome = "resolved"]
    /\ filteredInvoices' = IF requests[k].aborted THEN filteredInvoices ELSE RowsOf(k)
    /\ totalCount' = IF requests[k].aborted THEN totalCount ELSE TotalOf(k)
    /\ LoadFinally(k)
    /\ abortControllerRef' = abortControllerRef
    /\ ListStep

\* the fetch of the aborted request k rejects with an AbortError: the catch block returns,
\* and the finally block runs
RejectAborted ==
  \E k \in 1..MaxRequests :
    /\ Pending(k) /\ requests[k].aborted
    /\ requests' = [requests EXCEPT ![k].outcome = "AbortError"]
    /\ LoadFinally(k)
    /\ UNCHANGED <<abortControllerRef, filteredInvoices, totalCount>>
    /\ ListStep

\* the request k fails with another error: the catch block logs it, and the finally block
\* runs
RejectFailed ==
  \E k \in 1..MaxRequests :
    /\ Pending(k) /\ ~requests[k].aborted
    /\ requests' = [requests EXCEPT ![k].outcome = "failed"]
    /\ LoadFinally(k)
    /\ UNCHANGED <<abortControllerRef, filteredInvoices, totalCount>>
    /\ ListStep

\* the page after its first render: useState(true) for loading, no rows, no request
ListInit ==
  /\ RenderIdle /\ ExportIdle /\ PageIdle /\ CompileIdle /\ UpdateIdle
  /\ writable = FALSE
  /\ requests = <<>> /\ abortControllerRef = 0
  /\ filteredInvoices = <<>> /\ totalCount = 0 /\ loading = TRUE

ListNext == LoadInvoices \/ Resolve \/ RejectAborted \/ RejectFailed

ListSpec == ListInit /\ [][ListNext]_vars

(***************************************************************************)
(* invoicesApi.update: the invoice is patched, its line items are deleted  *)
(* and the supplied items are posted.                                      *)
(***************************************************************************)
\* the most line items a call supplies
MaxSupplied == 2

\* the line items a caller supplies
SuppliedItem == [name : {"a", "b"}, quantity : {0, 2}, unit_price : {5}]
Supplied == UNION {[1..n -> SuppliedItem] : n \in 0..MaxSupplied}

\* the line items the invoice has before the call
StoredBefore == {<<>>, <<[name |-> "o", quantity |-> 3, unit_price |-> 7, sort_order |-> 0]>>}

\* items.map((item, index) => ({ name: item.name || '', quantity: item.quantity || 1,
\*   unit_price: item.unit_price || 0, sort_order: index }))
itemsData(items) ==
  [k \in 1..Len(items) |->
     [name       |-> items[k].name,
      quantity   |-> IF items[k].quantity = 0 THEN 1 ELSE items[k].quantity,
      unit_price |-> items[k].unit_price,
      sort_order |-> k - 1]]

\* what the actions of the call leave alone
UpdateStep == UNCHANGED <<renderVars, writable, exportVars, pageVars, stack, listVars>>

\* the PATCH of the invoice: the call throws when the response is not ok
Patch ==
  /\ updating.step = "patch"
  /\ \E ok \in BOOLEAN : updating' = [updating EXCEPT !.step = IF ok THEN "delete" ELSE "thrown"]
  /\ storedItems' = storedItems
  /\ UpdateStep

\* the DELETE of the line items of the invoice: a response that is not ok is logged, and
\* the call goes on
DeleteItems ==
  /\ updating.step = "delete"
  /\ \E ok \in BOOLEAN :
       /\ storedItems' = IF ok THEN <<>> ELSE storedItems
       /\ updating' = [updating EXCEPT
                         !.step = IF Len(updating.items) > 0 THEN "post" ELSE "returned",
                         !.logged = IF ok THEN updating.logged
                                    ELSE Append(updating.logged, "Failed to delete existing items")]
  /\ UpdateStep

\* the POST of the supplied items: the call throws when the response is not ok
PostItems ==
  /\ updating.step = "post"
  /\ \E ok \in BOOLEAN :
       /\ storedItems' = IF ok THEN storedItems \o itemsData(updating.items) ELSE storedItems
       /\ updating' = [updating EXCEPT !.step = IF ok THEN "returned" ELSE "thrown"]
  /\ UpdateStep

\* a call of update with a list of items, for an invoice with or without items
UpdateInit ==
  /\ RenderIdle /\ ExportIdle /\ PageIdle /\ CompileIdle /\ ListIdle
  /\ writable = FALSE
  /\ storedItems \in StoredBefore
  /\ updating \in [step : {"patch"}, items : Supplied, logged : {<<>>}]

UpdateNext == Patch \/ DeleteItems \/ PostItems

UpdateSpec == UpdateInit /\ [][UpdateNext]_vars
(***************************************************************************)
(* Properties of a call                                                    *)
(***************************************************************************)
\* the call wrote the debug file: it did not fail at fs.writeFileSync
DebugFileWritten == result.err # "ENOENT"

\* the invoice field name of the data of the call
InvoiceField(name) == GetField(context.invoice, name)

\* the line items of the data of the call
Items == InvoiceField(kItems).a

\* the templates that reference a free name the safe context does not supply
OutsideNameTemplates == {tplGlobalThis, tplExit, tplRequire, tplUnknown}

\* C1: evaluation resolves only the names of the safe context: a template that references
\* any other free name fails with the error of an unresolved name, nothing of the global
\* scope is read, and the process is not ended.  Stated for the calls that wrote the debug
\* file.
C1_OnlyContextNames ==
  (pc = "done" /\ DebugFileWritten) =>
    /\ result.kind # "exit"
    /\ result.names \cap AmbientNames = {}
    /\ tsxTemplate \in OutsideNameTemplates =>
         (result.kind = "error" /\ result.err = "ReferenceError")

\* the scanner started at the brace at index i reaches the end of the text inside the expression
UnterminatedAt(jsx, i) ==
  With(ScanLoop(jsx, ScanStart(i)), LAMBDA st : st.i >= Len(jsx) /\ st.braceDepth > 0)

\* the template has an embedded expression whose closing brace is missing
HasUnterminatedExpression(t) ==
  /\ ~isTemplateLiteral(t)
  /\ \E i \in 1..(Len(PrepareJsx(t)) - 1) :
       /\ At(PrepareJsx(t), i) = "{"
       /\ At(PrepareJsx(t), i - 1) # "$"
       /\ UnterminatedAt(PrepareJsx(t), i)

\* C2: a template with an unterminated embedded expression does not compile: the call ends
\* with a CompilationError and no compiled text is handed to the evaluator.
C2_UnterminatedFails ==
  (pc # "start" /\ HasUnterminatedExpression(tsxTemplate)) =>
    (pc = "done" /\ result.kind = "error" /\ result.err = "CompilationError")

\* a path a.b.c
IsPath(e) ==
  /\ e # <<>>
  /\ IsIdentStart(e[1])
  /\ \A k \in 1..Len(e) : IsIdentChar(e[k]) \/ (e[k] = "." /\ k < Len(e) /\ IsIdentStart(e[k + 1]))

\* the value of the path e under the object v
RECURSIVE PathValue(_, _)
PathValue(v, e) ==
  IF e = <<>> THEN v
  ELSE IF v.t # "object" THEN VUndef
  ELSE With(IndexOf(e, <<".">>),
            LAMBDA dot : IF dot = -1 THEN GetField(v, e)
                         ELSE PathValue(GetField(v, Substring(e, 0, dot)), SubstringFrom(e, dot + 1)))

\* the data of the call as one object
Data == VObj((kInvoice :> context.invoice) @@ (kCompany :> context.company)
               @@ (kCurrency :> context.currency))

\* the template is literal markup and embedded paths into the data
IsPlainTemplate(t) ==
  /\ \A k \in 1..Len(t) : t[k] \notin {BT, BS, "$", "?", "&", "(", "*", "!"}
  /\ \A i \in 0..(Len(t) - 1) :
       /\ At(t, i) = "{" =>
            /\ IndexOfFrom(t, <<"}">>, i) # -1
            /\ IsPath(Substring(t, i + 1, IndexOfFrom(t, <<"}">>, i)))
            /\ PathValue(Data, Substring(t, i + 1, IndexOfFrom(t, <<"}">>, i))).t
                 \in {"string", "number"}
       /\ At(t, i) = "}" => \E j \in 0..(i - 1) : At(t, j) = "{" /\ IndexOfFrom(t, <<"}">>, j) = i

\* one step of the substitution of every {path} by the text of its value
SubstituteStep(t, st) ==
  IF st.i >= Len(t) THEN st
  ELSE IF At(t, st.i) = "{"
  THEN With(IndexOfFrom(t, <<"}">>, st.i),
            LAMBDA close : [i   |-> close + 1,
                            out |-> st.out \o JsToString(PathValue(Data, Substring(t, st.i + 1, close)))])
  ELSE [i |-> st.i + 1, out |-> Append(st.out, At(t, st.i))]

Substituted(t) == Iterate(LAMBDA st : SubstituteStep(t, st), ReplaceStart, Len(t)).out

\* C3: a template of literal markup and plain {path} expressions renders to the template
\* with every {path} replaced by the text of its value and every other character unchanged;
\* the documented example gives <div class="invoice"><h1>Invoice #INV-001</h1><p>Total:
\* $1500</p></div>.  Stated for the calls that wrote the debug file.
C3_PlainSubstitution ==
  (pc = "done" /\ DebugFileWritten /\ IsPlainTemplate(tsxTemplate)) =>
    /\ result.kind = "ok"
    /\ result.out = Substituted(tsxTemplate)
    /\ tsxTemplate = tplConcrete =>
         result.out = <<"<", "d", "i", "v", " ", "c", "l", "a", "s", "s", "=", "\"", "i", "n",
             "v", "o", "i", "c", "e", "\"", ">", "<", "h", "1", ">", "I", "n", "v", "o", "i",
             "c", "e", " ", "#", "I", "N", "V", "-", "0", "0", "1", "<", "/", "h", "1", ">",
             "<", "p", ">", "T", "o", "t", "a", "l", ":", " ", "$", "1", "5", "0", "0", "<",
             "/", "p", ">", "<", "/", "d", "i", "v", ">">>

\* C4: the template {invoice.notes && <p>Notes: {invoice.notes}</p>} renders to the empty
\* string when invoice.notes is null and to <p>Notes: Thanks</p> when it is "Thanks".
\* Stated for the calls that wrote the debug file.
C4_AndAtStart ==
  (pc = "done" /\ DebugFileWritten /\ tsxTemplate = tplAndAtStart) =>
    /\ result.kind = "ok"
    /\ result.out = IF InvoiceField(kNotes) = VNull THEN <<>> ELSE <<"<", "p", ">", "N", "o",
        "t", "e", "s", ":", " ", "T", "h", "a", "n", "k", "s", "<", "/", "p", ">">>

\* before \o name \o after for each of the line items from k on, in array order
RECURSIVE PerItem(_, _, _)
PerItem(before, after, k) ==
  IF k > Len(Items) THEN <<>>
  ELSE before \o JsToString(GetField(Items[k], kName)) \o after \o PerItem(before, after, k + 1)

\* the function expression and join that a mapping expression over invoice.items compiles to
CompiledMap(markup) ==
  <<"<", "u", "l", ">", "$", "{", "i", "n", "v", "o", "i", "c", "e", ".", "i", "t", "e", "m",
      "s", ".", "m", "a", "p", "(", "f", "u", "n", "c", "t", "i", "o", "n", "(", "x", ")", " ",
      "{", " ", "r", "e", "t", "u", "r", "n", " ", BT>> \o markup \o <<BT, ";", " ", "}", ")",
      ".", "j", "o", "i", "n", "(", "'", "'", ")", "}", "<", "/", "u", "l", ">">>

\* C5: a mapping expression recv.map(x => (<markup with {x.field}>)) compiles to a call of
\* map with a function that returns the compiled markup, joined with the empty string, and
\* renders to the markup of each element in array order, '' for an empty array.  Stated for
\* the calls that wrote the debug file.
C5_MapRendersEachItem ==
  (pc = "done" /\ DebugFileWritten /\ tsxTemplate \in {tplMap, tplMapParen}) =>
    /\ htmlTemplate = CompiledMap(IF tsxTemplate = tplMap THEN <<"<", "l", "i", ">", "$", "{",
        "x", ".", "n", "a", "m", "e", "}", "<", "/", "l", "i", ">">>
                                  ELSE <<"<", "l", "i", ">", "a", ")", " ", "$", "{", "x", ".",
                                      "n", "a", "m", "e", "}", "<", "/", "l", "i", ">">>)
    /\ result.kind = "ok"
    /\ result.out = <<"<", "u", "l", ">">>
                      \o PerItem(IF tsxTemplate = tplMap THEN <<"<", "l", "i",
                          ">">> ELSE <<"<", "l", "i", ">", "a", ")", " ">>,
                                 <<"<", "/", "l", "i", ">">>, 1)
                      \o <<"<", "/", "u", "l", ">">>

\* the text of the due date of the call
DueText == JsToString(InvoiceField(kDueDate))

\* what the ternary templates render to when their condition is truthy, and when it is falsy
TernaryExpected(t, yes) ==
  IF t = tplTernary
  THEN (IF yes THEN <<"<", "i", ">", "<", "b", ">", "D", "u", "e", " ">> \o DueText \o <<"<",
      "/", "b", ">", "<", "/", "i", ">">> ELSE <<"<", "i", ">", "<", "i", ">", "n", "o", "n",
      "e", "<", "/", "i", ">", "<", "/", "i", ">">>)
  ELSE IF t = tplTernaryColon
  THEN (IF yes THEN <<"<", "i", ">", "<", "b", ">", "D", "u", "e", ":",
      " ">> \o DueText \o <<"<", "/", "b", ">", "<", "/", "i", ">">> ELSE <<"<", "i", ">", "<",
      "i", ">", "n", "o", "n", "e", "<", "/", "i", ">", "<", "/", "i", ">">>)
  ELSE (IF yes THEN <<"<", "i", ">", "<", "b", ">", "6", "<", "/", "b", ">", "<", "/", "i",
      ">">> ELSE <<"<", "i", ">", "<", "u", ">", "A", "c", "m", "e", "<", "/", "u", ">", "<",
      "/", "i", ">">>)

\* the value of the condition of a ternary template
TernaryCondition(t) ==
  IF t = tplTernaryNames THEN Truthy(InvoiceField(kNotes)) ELSE Truthy(InvoiceField(kDueDate))

\* C6: a ternary expression whose branches are both markup renders to the markup of the
\* first branch when the condition is truthy and of the second when it is falsy, and the
\* expressions of the branch not taken are not evaluated.  Stated for the calls that wrote
\* the debug file.
C6_TernaryBranches ==
  (pc = "done" /\ DebugFileWritten
     /\ tsxTemplate \in {tplTernary, tplTernaryColon, tplTernaryNames}) =>
    /\ result.kind = "ok"
    /\ result.out = TernaryExpected(tsxTemplate, TernaryCondition(tsxTemplate))
    /\ (tsxTemplate = tplTernaryNames /\ TernaryCondition(tsxTemplate)) => kCompany \notin result.names

\* the data of the call with the empty string as the due date
WithEmptyDueDate ==
  [context EXCEPT !.invoice = VObj([context.invoice.o EXCEPT ![kDueDate] = VStr(<<>>)])]

\* C7: a template that references invoice.due_date renders without an error when the due
\* date is null, with the empty string at the place of the reference: as it renders when
\* the due date is the empty string.  Stated for the calls that wrote the debug file.
C7_NullDueDateIsEmpty ==
  (pc = "done" /\ DebugFileWritten /\ InvoiceField(kDueDate) = VNull
     /\ Includes(tsxTemplate, <<"i", "n", "v", "o", "i", "c", "e", ".", "d", "u", "e", "_",
         "d", "a", "t", "e">>)) =>
    /\ result.kind = "ok"
    /\ result.out = evaluateTemplate(htmlTemplate, createSafeContext(WithEmptyDueDate), TRUE).out

\* the number of occurrences of the character c in t
Count(t, c) == Cardinality({k \in 1..Len(t) : t[k] = c})

\* every embedded expression of the markup template is a plain value, and outside its
\* expressions the template has nothing the transformation rewrites
HasOnlyPlainExpressions(t) ==
  /\ Count(t, "{") = Count(t, "}")
  /\ \A k \in 1..Len(t) : t[k] \notin {"$", "?", "&", "!"}
  /\ ~Includes(t, kMap)
  /\ ~Includes(t, <<"{", "/", "*">>)
  /\ ~Includes(t, kClassName)
  /\ ~Includes(t, <<"/", ">">>)

\* the template with { written ${ and nothing else changed
DollarBraces(t) == ReplaceAll(t, <<"{">>, kDollar)

\* C8: a plain embedded expression {e} is compiled to ${e}, e character for character.
C8_PlainExpressionVerbatim ==
  (pc # "start" /\ HasOnlyPlainExpressions(tsxTemplate)) =>
    htmlTemplate = DollarBraces(tsxTemplate)

\* the template is in plain-interpolation form: it has ${ and no className=
InterpolationForm(t) == Includes(t, kDollar) /\ ~Includes(t, kClassName)

C10_Deterministic ==
  (pc = "done" /\ calls > 0) =>
    /\ result.kind = previous.kind
    /\ result.out = previous.out
    /\ result.err = previous.err


(***************************************************************************)
(* Effects and errors of a call of renderInvoiceToHtml.                    *)
(***************************************************************************)
\* C11: a call of renderInvoiceToHtml does no input or output: it writes no file, and
\* whether it succeeds does not depend on a file path being writable.
C11_NoFileWritten ==
  /\ debugFile = <<>>
  /\ pc = "done" => result.err # "ENOENT"

\* a text is a bounded, non-empty start of the compiled text
IsPrefixOfCompiled(p) == p # <<>> /\ Len(p) <= LogLimit /\ StartsWith(htmlTemplate, p)

\* C12: when evaluation throws, the call throws one TemplateRenderError that carries the
\* message of the original error and a bounded prefix of the compiled text; the caller gets
\* the complete rendered string or that error, never both and never the original error.
\* Stated for the calls that wrote the debug file.
C12_TypedRenderError ==
  (pc = "done" /\ DebugFileWritten) =>
    /\ result.kind = "ok" => thrown = NoError
    /\ result.kind = "error" =>
         /\ thrown.name = "TemplateRenderError"
         /\ EndsWith(thrown.message, MessageOf(result.err))
         /\ \E n \in 1..Len(thrown.message) : IsPrefixOfCompiled(SubSeq(thrown.message, 1, n))

\* Object.keys(context) in evaluateTemplate: the parameters of the function it builds
contextKeys(safeContext) == DOMAIN safeContext

\* the names the context builder is to supply
SafeNames ==
  {kInvoice, kCompany, kCurrency, kSubtotal, kDiscountAmount, kTaxAmount, kShippingAmount,
   kTotal, kFormattedIssueDate, kFormattedDueDate, kFormatDate, kWhen, kMapName}

DueDateUnusable ==
  \/ IsNullish(GetField(context.invoice, kDueDate))
  \/ ~IsIsoDate(JsToString(GetField(context.invoice, kDueDate)))

\* C17: formatDate, formattedIssueDate and formattedDueDate are the empty string when the
\* source date is null or cannot be parsed as a date, and nothing is thrown.
C17_BadDateIsEmpty ==
  (pc = "done" /\ DebugFileWritten /\ tsxTemplate = tplFormatDue /\ DueDateUnusable) =>
    /\ formatDate(GetField(context.invoice, kDueDate)) = VStr(<<>>)
    /\ createSafeContext(context)[kFormattedDueDate] = VStr(<<>>)
    /\ createSafeContext(context)[kFormattedIssueDate] = VStr(<<>>)
    /\ result.kind = "ok"
    /\ result.out = <<"<", "p", ">", " ", "<", "/", "p", ">">>

\* C19: a ternary expression with one markup branch: the markup branch becomes a nested
\* template literal, the plain branch stays a bare expression, and a call whose condition
\* selects the plain branch renders the value of that expression: the empty string for
\* {c ? <b>x</b> : ''} with c falsy.  Stated for the calls that wrote the debug file.
C19_PlainBranchStaysBare ==
  (pc = "done" /\ DebugFileWritten /\ tsxTemplate = tplTernaryPlain) =>
    /\ htmlTemplate = <<"<", "i", ">", "$", "{", "i", "n", "v", "o", "i", "c", "e", ".", "n",
        "o", "t", "e", "s", " ", "?", " ", BT, "<", "b", ">", "x", "<", "/", "b", ">", BT, " ",
        ":", " ", "'", "'", "}", "<", "/", "i", ">">>
    /\ result.kind = "ok"
    /\ result.out = IF Truthy(InvoiceField(kNotes)) THEN <<"<", "i", ">", "<", "b", ">", "x",
        "<", "/", "b", ">", "<", "/", "i", ">">> ELSE <<"<", "i", ">", "<", "/", "i", ">">>

\* C20: an expression c && m whose m, stripped of one pair of parentheses, starts with <, and
\* whose code has no ternary operator and no .map( call, compiles to c ? `m'` : '' with m'
\* the compiled markup, whatever the text of the markup; when m does not start with < the
\* expression is left as it is.
C20_AndCompiles ==
  pc # "start" =>
    /\ tsxTemplate = tplAndInside =>
         htmlTemplate = <<"<", "b", ">", "$", "{", "i", "n", "v", "o", "i", "c", "e", ".", "n",
             "o", "t", "e", "s", " ", "?", " ", BT, "<", "p", ">", "N", "o", "t", "e", "s",
             ":", " ", "$", "{", "i", "n", "v", "o", "i", "c", "e", ".", "n", "o", "t", "e",
             "s", "}", "<", "/", "p", ">", BT, " ", ":", " ", "'", "'", "}", "<", "/", "b", ">">>
    /\ tsxTemplate = tplAndQuestion =>
         htmlTemplate = <<"<", "b", ">", "$", "{", "i", "n", "v", "o", "i", "c", "e", ".", "n",
             "o", "t", "e", "s", " ", "?", " ", BT, "<", "p", ">", "W", "h", "y", "?", " ",
             "$", "{", "i", "n", "v", "o", "i", "c", "e", ".", "n", "o", "t", "e", "s", "}",
             "<", "/", "p", ">", BT, " ", ":", " ", "'", "'", "}", "<", "/", "b", ">">>
    /\ tsxTemplate = tplAndPlain =>
         htmlTemplate = <<"<", "b", ">", "$", "{", "i", "n", "v", "o", "i", "c", "e", ".", "n",
             "o", "t", "e", "s", " ", "&", "&", " ", "i", "n", "v", "o", "i", "c", "e", ".",
             "n", "o", "t", "e", "s", ".", "l", "e", "n", "g", "t", "h", "}", "<", "/", "b", ">">>

(***************************************************************************)
(* The export request.                                                     *)
(***************************************************************************)
\* rendering the custom template of the request throws
CustomThrows ==
  /\ styling # VNull
  /\ renderInvoiceToHtml(styling.s, ContextOfInvoice(invoice), writable).kind = "error"

\* the steps of generatePdf, which GET reaches with a document
InGeneratePdf == {"launch", "newPage", "setContent", "fonts", "pdf", "pdfCatch", "pdfFinally"}

\* C13: whenever rendering the custom template throws, the failure is logged and the
\* document is built from the default template; the failing template alone does not make
\* the request end in an error, whatever invoice the request loaded.
C13_FallbackToDefault ==
  /\ (step \in InGeneratePdf /\ CustomThrows) => fallback # <<>>
  /\ fallback # <<>> => (html.from = "default" /\ html.text = InvoiceHtml(invoice).out)

\* the response is the complete document as a download
IsDownload ==
  /\ response.status = 200
  /\ response.body = [kind |-> "pdf", of |-> fullHtml(html.text)]
  /\ html.from # "none"
  /\ StartsWith(response.disposition, kAttachment)

\* the response is an error status with a message in plain text
IsErrorText ==
  /\ response.status \in 400..599
  /\ response.type = "text/plain"
  /\ response.body.kind = "text"

\* C14: every request ends in one of two outcomes: status 200 with the complete PDF and a
\* Content-Disposition of type attachment, or an error status with a message in plain text;
\* when loading the invoice, rendering or the conversion fails, no PDF bytes are answered.
C14_DownloadOrErrorText ==
  step \in {"done", "exited"} =>
    /\ IsDownload \/ IsErrorText
    /\ ~(IsDownload /\ IsErrorText)
    /\ failure # NoError => response.body.kind # "pdf"

\* C18: once generatePdf has launched the browser, the browser is closed before generatePdf
\* returns or throws, on every path: success, a failure of newPage, setContent or pdf, a
\* timeout.  GET is at "respond" when generatePdf returned and at "catch" when it threw.
C18_BrowserClosedOnExit ==
  step \in {"respond", "catch", "done"} => browser # "open"

\* a call on the page failed with the browser still running, and the browser was closed
C18_Witness ==
  /\ step = "catch"
  /\ browser = "closed"
  /\ StartsWith(failure.message, kPdfFailed)

(***************************************************************************)
(* The listing of invoices.                                                *)
(***************************************************************************)
\* the ids of the rows that match the filters of the listing, in the order of the listing
MatchingIds ==
  With(Ordered({row \in rows : MatchesStatus(row, query.status)}), LAMBDA all :
    [k \in 1..Len(all) |-> all[k].id])

\* C15: from the call without a cursor on, passing each nextCursor to the next call until
\* it is null, every row that matches the filters is returned exactly once, in the order
\* created_at DESC, id DESC, rows that share a created_at value included; the table does
\* not change between the calls.
C15_EveryRowOnce ==
  paging = "end" => pages = MatchingIds


(***************************************************************************)
(* The scanner and the rewrites of the embedded expressions.               *)
(***************************************************************************)
\* the markup of the call as the scanner sees it
Jsx == PrepareJsx(tsxTemplate)

\* the index of the brace at which parseAndConvertJsx first starts the scanner, -1 when
\* the text has no such brace
FirstExpressionAt(jsx) ==
  With({i \in 1..(Len(jsx) - 1) : At(jsx, i) = "{" /\ At(jsx, i - 1) # "$"},
       LAMBDA starts : IF starts = {} THEN -1 ELSE CHOOSE i \in starts : \A k \in starts : i <= k)

\* the call has compiled a markup template that has an embedded expression
HasExpression == pc = "compiled" /\ ~isTemplateLiteral(tsxTemplate) /\ FirstExpressionAt(Jsx) # -1

\* the scanner after its loop, started at the first expression of the markup
Scanned == ScanLoop(Jsx, ScanStart(FirstExpressionAt(Jsx)))

\* the expression read by the rules of the language, from the index after its opening
\* brace: a backslash inside a string takes the next character with it, a quote closes the
\* string only when it is the quote that opened it, comments are skipped, and only braces
\* outside strings and comments are counted; end is the index of the matching brace
MatchStep(t, st) ==
  IF st.end # -1 \/ st.i >= Len(t) THEN st
  ELSE IF st.quote # "" /\ At(t, st.i) = BS
  THEN [st EXCEPT !.i = Min(st.i + 2, Len(t)), !.body = st.body \o Substring(t, st.i, st.i + 2)]
  ELSE IF st.quote # ""
  THEN [st EXCEPT !.i = st.i + 1, !.body = Append(st.body, At(t, st.i)),
                  !.quote = IF At(t, st.i) = st.quote THEN "" ELSE st.quote]
  ELSE IF At(t, st.i) \in {SQ, DQ, BT}
  THEN [st EXCEPT !.i = st.i + 1, !.body = Append(st.body, At(t, st.i)), !.quote = At(t, st.i)]
  ELSE IF StartsWithAt(t, st.i, <<"/", "/">>)
  THEN [st EXCEPT !.i = IF IndexOfFrom(t, <<NL>>, st.i) = -1 THEN Len(t)
                        ELSE IndexOfFrom(t, <<NL>>, st.i)]
  ELSE IF StartsWithAt(t, st.i, <<"/", "*">>)
  THEN [st EXCEPT !.i = IF IndexOfFrom(t, <<"*", "/">>, st.i + 2) = -1 THEN Len(t)
                        ELSE IndexOfFrom(t, <<"*", "/">>, st.i + 2) + 2]
  ELSE IF At(t, st.i) = "}" /\ st.depth = 1 THEN [st EXCEPT !.end = st.i]
  ELSE [st EXCEPT !.i = st.i + 1, !.body = Append(st.body, At(t, st.i)),
                  !.depth = IF At(t, st.i) = "{" THEN st.depth + 1
                            ELSE IF At(t, st.i) = "}" THEN st.depth - 1 ELSE st.depth]

\* the body and the matching brace of the expression whose opening brace is at index i
Matched(t, i) ==
  Iterate(LAMBDA st : MatchStep(t, st),
          [i |-> i + 1, depth |-> 1, quote |-> "", body |-> <<>>, end |-> -1], Len(t) - i)

\* the templates whose only brackets outside the opening and the closing brace of the
\* expression are inside quoted strings
BracketsInStrings == {tplStringBraces, tplBackquoteString, tplEscapedQuote}

\* C21: for an embedded expression with balanced braces the scanner returns as body exactly
\* the characters between the opening brace and its matching brace, comments excluded, and
\* scanning resumes at the character after that brace; brackets inside a quoted string
\* change no depth counter and an escaped quote does not close the string.
C21_ScannerFindsMatchingBrace ==
  (HasExpression /\ Matched(Jsx, FirstExpressionAt(Jsx)).end # -1) =>
    /\ Scanned.expressionChars = Matched(Jsx, FirstExpressionAt(Jsx)).body
    /\ parseJsxExpression(Jsx, FirstExpressionAt(Jsx)).endIndex + 1
         = Matched(Jsx, FirstExpressionAt(Jsx)).end + 1
    /\ tsxTemplate \in BracketsInStrings =>
         (Scanned.braceDepth = 0 /\ Scanned.parenDepth = 0 /\ Scanned.bracketDepth = 0)

\* the text of the first expression as the scanner returns it
Raw == Scanned.expressionChars

\* the scanner's test for a mapping: a map call in the hundred characters after the brace
FlaggedMap ==
  HasMapCall(Substring(Jsx, FirstExpressionAt(Jsx) + 1, FirstExpressionAt(Jsx) + 1 + PeekAhead))

\* the compiled text has the first expression as ${e}
CompiledAs(e) == Includes(htmlTemplate, kDollar \o e \o <<"}">>)

\* C22: when an embedded expression matches several patterns, exactly one rewrite is
\* applied, chosen in the order mapping, ternary, logical AND, plain: a rewrite of lower
\* priority is never applied to an expression the scanner flagged for a higher one.
C22_RewriteByPriority ==
  HasExpression =>
    /\ FlaggedMap => CompiledAs(convertMapExpression(Raw))
    /\ (~FlaggedMap /\ Scanned.isTernaryExpression) => CompiledAs(convertTernaryExpression(Raw))
    /\ (~FlaggedMap /\ ~Scanned.isTernaryExpression /\ Scanned.isAndExpression) =>
         CompiledAs(convertAndExpression(Raw))
    /\ (~FlaggedMap /\ ~Scanned.isTernaryExpression /\ ~Scanned.isAndExpression) =>
         CompiledAs(Raw)

\* an expression flagged for the ternary and for the && rewrite is compiled, and the two
\* rewrites differ on it
C22_Witness ==
  /\ HasExpression
  /\ tsxTemplate = tplAndTernary
  /\ ~FlaggedMap /\ Scanned.isTernaryExpression /\ Scanned.isAndExpression
  /\ convertTernaryExpression(Raw) # convertAndExpression(Raw)
  /\ CompiledAs(convertTernaryExpression(Raw))

\* the index of the arrow of the mapping in expr, after its parameters and white space
MapArrowAt(expr) == SkipSpace(expr, ReadMapParams(expr, IndexOf(expr, kMapOpen) + 5).i)

\* the index at which the body of the arrow function starts
MapBodyStart(expr) == SkipSpace(expr, MapArrowAt(expr) + 2)

\* the index of the parenthesis that closes the map call of expr
MapCallEnd(expr) == ReadBalanced(expr, IndexOf(expr, kMapOpen) + 5, "(", ")").i

\* expr is a mapping with an arrow function whose body is a bare expression
HasBareBody(expr) ==
  /\ IndexOf(expr, kMapOpen) # -1
  /\ Substring(expr, MapArrowAt(expr), MapArrowAt(expr) + 2) = kArrow
  /\ At(expr, MapBodyStart(expr)) \notin {"(", "{"}
  /\ MapCallEnd(expr) < Len(expr)

\* the mapping expr with a bare body, rewritten: the function returns the whole body, up to
\* the parenthesis that closes the map call, and the text after that parenthesis follows
\* the join
BareMapRewritten(expr) ==
  Substring(expr, 0, IndexOf(expr, kMapOpen)) \o kFunction
    \o ReadMapParams(expr, IndexOf(expr, kMapOpen) + 5).params \o <<")", " ", "{", " ">> \o kReturn
    \o Substring(expr, MapBodyStart(expr), MapCallEnd(expr)) \o <<";", " ", "}">> \o kJoin
    \o SubstringFrom(expr, MapCallEnd(expr) + 1)

\* C23: for a mapping whose arrow function has a bare expression as body, the rewritten
\* function returns the whole body, and the text after the closing parenthesis of the map
\* call is kept after the join.
C23_BareBodyWhole ==
  (HasExpression /\ FlaggedMap /\ HasBareBody(Raw)) => CompiledAs(BareMapRewritten(Raw))

\* the index after the name of a tag, from j
RECURSIVE TagNameEnd(_, _)
TagNameEnd(s, j) ==
  IF j < Len(s) /\ (IsIdentChar(At(s, j)) \/ At(s, j) = "-") THEN TagNameEnd(s, j + 1) ELSE j

\* s has at i a self-closing tag whose name is one of selfClosingTags
SelfClosingAt(s, i, nameEnd, gt) ==
  /\ At(s, i) = "<"
  /\ gt # -1 /\ gt - 1 >= nameEnd /\ At(s, gt - 1) = "/"
  /\ \E k \in 1..Len(selfClosingTags) : selfClosingTags[k] = Substring(s, i + 1, nameEnd)

\* the replacement by the names of the tags: a self-closing tag of selfClosingTags becomes
\* an open and a close tag with its attributes, all other text is copied
CloseByNameStep(s, st) ==
  IF st.i >= Len(s) THEN st
  ELSE With(TagNameEnd(s, st.i + 1), LAMBDA nameEnd :
       With(IndexOfFrom(s, <<">">>, nameEnd), LAMBDA gt :
         IF SelfClosingAt(s, st.i, nameEnd, gt)
         THEN [i |-> gt + 1,
               out |-> st.out \o Substring(s, st.i, SpaceRunStart(s, nameEnd, gt - 1))
                         \o <<">", "<", "/">> \o Substring(s, st.i + 1, nameEnd) \o <<">">>]
         ELSE [i |-> st.i + 1, out |-> Append(st.out, At(s, st.i))]))

CloseByName(s) == Iterate(LAMBDA st : CloseByNameStep(s, st), ReplaceStart, Len(s)).out

\* the compiled text before the self-closing tags are replaced
BeforeClosing == FixOptionalChaining(parseAndConvertJsx(Jsx))

\* C24: after compilation the self-closing form of exactly the tags div, span, p, h1 to h6,
\* li, td and th is replaced by an open and close pair of the same tag with its attributes,
\* and a self-closing tag of any other name is left as written.
C24_OnlyListedTagsClosed ==
  (pc = "compiled" /\ ~isTemplateLiteral(tsxTemplate)) => htmlTemplate = CloseByName(BeforeClosing)

\* the index of the loop a call is in
LoopIndex(f) == IF f.fn = "parseJsxExpression" \/ f.fn \in Finders THEN f.st.i ELSE f.i

\* the condition of the loop a call is in
InLoop(f) ==
  CASE f.fn \in Copiers -> f.i < Len(f.text)
    [] f.fn = "parseJsxExpression" -> Scanning(f)
    [] f.fn \in Finders -> Finding(f)
    [] f.fn = "convertMapExpression" -> MapLooping(f)
    [] OTHER -> f.i < LastPass

\* a step of the running call: its loop advances its index, is left with break, or is over
\* and the call goes on with the code after it
LoopAdvances(f, g) == g.phase # f.phase \/ LoopIndex(g) > LoopIndex(f) \/ ~InLoop(g)

\* a call by f: the parser gets the text of transformJsxToHtml, the scanner reads the text
\* of f from the brace f is at, and every other function, which may be called again from
\* inside the call, gets a text strictly shorter than the text of f
CallShorter(f, g) ==
  CASE f.fn = "transformJsxToHtml" -> g.fn = "parseAndConvertJsx"
    [] g.fn = "parseJsxExpression" -> g.text = f.text /\ g.st.i > f.i
    [] OTHER -> Len(g.text) < Len(f.text)

\* a return to f, which goes on as g: behind the expression when the scanner returns, and
\* never before the index it was at
ReturnAdvances(f, g, returned) ==
  IF returned.fn = "parseJsxExpression" THEN g.i > f.i ELSE LoopIndex(g) >= LoopIndex(f)

\* the steps of the compiler by what they do to the stack of calls
StepAdvances ==
  /\ (Len(stack') = Len(stack) /\ stack # <<>>) => LoopAdvances(Top, stack'[Len(stack')])
  /\ (Len(stack') = Len(stack) + 1 /\ stack # <<>>) => CallShorter(Top, stack'[Len(stack')])
  /\ (Len(stack') = Len(stack) - 1 /\ stack' # <<>>) =>
       ReturnAdvances(stack[Len(stack) - 1], stack'[Len(stack')], Top)

CutAfterExpression == Substring(Jsx, 0, Scanned.i + 1)

\* C26: how an expression is classified and rewritten depends only on the text between its
\* opening and its closing brace: with other text after the closing brace, here none at
\* all, its compiled form is the same.
C26_OnlyTheExpressionCounts ==
  HasExpression =>
    CompiledAs(parseJsxExpression(CutAfterExpression, FirstExpressionAt(Jsx)).content)

(***************************************************************************)
(* Text and data are not code.                                             *)
(***************************************************************************)
\* the template is markup: literal text, which may have backquotes, backslashes and dollar
\* signs, and embedded paths into the data
IsMarkupWithPaths(t) ==
  /\ ~isTemplateLiteral(t)
  /\ \A k \in 1..Len(t) : t[k] \notin {"?", "&", "(", "*", "!"}
  /\ \A i \in 0..(Len(t) - 1) :
       /\ At(t, i) = "{" =>
            /\ i > 0 /\ At(t, i - 1) # "$"
            /\ IndexOfFrom(t, <<"}">>, i) # -1
            /\ IsPath(Substring(t, i + 1, IndexOfFrom(t, <<"}">>, i)))
            /\ PathValue(Data, Substring(t, i + 1, IndexOfFrom(t, <<"}">>, i))).t
                 \in {"string", "number"}
       /\ At(t, i) = "}" => \E j \in 0..(i - 1) : At(t, j) = "{" /\ IndexOfFrom(t, <<"}">>, j) = i

\* the literal text of the template has a backquote, a backslash or a dollar sign
HasSpecialText(t) == \E k \in 1..Len(t) : t[k] \in {BT, BS, "$"}

\* C27: in a markup template the text outside the embedded expressions is never read as
\* code: every backquote, backslash and dollar sign of it is in the output unchanged, and
\* cannot end or escape the literal the evaluator wraps around the compiled template.
\* Stated for the calls that wrote the debug file.
C27_TextIsNotCode ==
  (pc = "done" /\ DebugFileWritten /\ IsMarkupWithPaths(tsxTemplate)
     /\ HasSpecialText(tsxTemplate)) =>
    (result.kind = "ok" /\ result.out = Substituted(tsxTemplate))

\* the data of the call with other notes
WithNotes(ctx, notes) ==
  [ctx EXCEPT !.invoice = VObj([ctx.invoice.o EXCEPT ![kNotes] = notes])]

\* the notes of the invoice are the text with ${...}, {...} and backquotes
NotesInjected == context # VNull /\ GetField(context.invoice, kNotes) = VStr(kInjected)

\* the notes with a letter for every dollar sign, brace and backquote
Harmless ==
  [k \in 1..Len(kInjected) |-> IF kInjected[k] \in {"$", "{", "}", BT} THEN "x" ELSE kInjected[k]]

\* the outcome of the call for the same template, the data with the harmless notes and
\* the debug file as the call found it
WithHarmless ==
  evaluateTemplate(htmlTemplate, createSafeContext(WithNotes(context, VStr(Harmless))),
                   DebugFileWritten)

\* C28: data are inserted as text and never evaluated: notes with ${...}, {...} and
\* backquotes are in the output as they are, and the call evaluates the same expressions,
\* with the same outcome, as the call whose notes differ from them in these characters.
C28_DataIsNotCode ==
  (pc = "done" /\ NotesInjected) =>
    /\ result.kind = WithHarmless.kind
    /\ result.err = WithHarmless.err
    /\ result.names = WithHarmless.names
    /\ result.kind = "ok" => result.out = ReplaceAll(WithHarmless.out, Harmless, kInjected)

\* a call has put the notes with ${...}, {...} and backquotes into its output
C28_Witness ==
  /\ pc = "done" /\ NotesInjected
  /\ result.kind = "ok" /\ Includes(result.out, kInjected)
  /\ kNotes \in result.names \/ kInvoice \in result.names

StoredAsSupplied(items) ==
  [k \in 1..Len(items) |->
     [name |-> items[k].name, quantity |-> items[k].quantity,
      unit_price |-> items[k].unit_price, sort_order |-> k - 1]]

\* C30: when update(id, data, items) with a list of items returns without throwing, the
\* stored line items of the invoice are exactly the supplied items, in order and with
\* sort_order equal to their index, and no line item from before the update is left.
C30_StoredAreSupplied ==
  updating.step = "returned" => storedItems = StoredAsSupplied(updating.items)
====
